---- MODULE Spec2Model ----
(***************************************************************************)
(* ERA5Land: the Earth Engine script generators (Era5Land.py,              *)
(* daily_generator.py), the daily CSV analysis (era5_daily_analysis.py,    *)
(* era5_csv_page.py) and the PDF report (era5_report.py).                  *)
(*                                                                         *)
(* Numbers with a decimal part (temperatures, millimetres, m/s) are kept   *)
(* in tenths: 0.2 mm is 2, -2.5 C is -25.  Percentages are kept as the     *)
(* exact fraction num/den.  Dates are proleptic day numbers (the ordinal   *)
(* of datetime.date), so calendar arithmetic is computed, not assumed.     *)
(***************************************************************************)
EXTENDS Integers, Sequences, FiniteSets, TLC

VARIABLES
    variant,      \* which generator serves the request
    call,         \* arguments of the generator call
    result,       \* what the generator returned
    gee,          \* the emitted script while Earth Engine evaluates it
    doyIn,        \* (month, day) handed to compute_doy
    doyOut,       \* what compute_doy returned
    df,           \* the daily table (DataFrame) under analysis
    params,       \* the event thresholds
    masks         \* event key -> boolean series

vars == <<variant, call, result, gee, doyIn, doyOut, df, params, masks>>

tableVars == <<df, params, masks>>

Idle == [kind |-> "idle"]

(***************************************************************************)
(* Calendar arithmetic of datetime.date / ee.Date (proleptic Gregorian).   *)
(***************************************************************************)
IsLeap(y) == (y % 4 = 0) /\ ((y % 100 # 0) \/ (y % 400 = 0))

DaysInMonth(y, m) ==
    IF m = 2 THEN (IF IsLeap(y) THEN 29 ELSE 28)
    ELSE IF m \in {4, 6, 9, 11} THEN 30 ELSE 31

RECURSIVE DaysBeforeMonth(_, _)
DaysBeforeMonth(y, m) ==
    IF m <= 1 THEN 0 ELSE DaysBeforeMonth(y, m - 1) + DaysInMonth(y, m - 1)

DaysBeforeYear(y) ==
    LET p == y - 1 IN p * 365 + (p \div 4) - (p \div 100) + (p \div 400)

\* dt.date(y, m, d) raises ValueError unless this holds
ValidDate(y, m, d) == m \in 1..12 /\ d >= 1 /\ d <= DaysInMonth(y, m)

DayNumber(y, m, d) == DaysBeforeYear(y) + DaysBeforeMonth(y, m) + d

\* the calendar year, month and day of a day number
YearOfDay(n) ==
    CHOOSE y \in 2019..2023 : DaysBeforeYear(y) < n /\ n <= DaysBeforeYear(y + 1)

DateOfDay(n) ==
    LET y == YearOfDay(n)
        k == n - DaysBeforeYear(y)
        m == CHOOSE mm \in 1..12 :
                DaysBeforeMonth(y, mm) < k
                /\ k <= DaysBeforeMonth(y, mm) + DaysInMonth(y, mm)
    IN [year |-> y, month |-> m, day |-> k - DaysBeforeMonth(y, m)]

\* ee.Date.getRelative('day', 'year').add(1): 1-based position in the date's OWN year
DoyOfDay(n) == (n - DayNumber(YearOfDay(n), 1, 1)) + 1

(***************************************************************************)
(* Era5Land.py                                                             *)
(***************************************************************************)
RefYear == 2001

None == [isNone |-> TRUE, val |-> 0]
Some(v) == [isNone |-> FALSE, val |-> v]

compute_doy_leapref(month, day) ==
    IF ValidDate(2000, month, day)
    THEN Some(DaysBeforeMonth(2000, month) + day)
    ELSE None

\* try: dt.date(2001, month, day).timetuple().tm_yday  except ValueError: None
compute_doy(month, day) ==
    IF ValidDate(RefYear, month, day)
    THEN Some(DaysBeforeMonth(RefYear, month) + day)
    ELSE None

\* wraps_year = start_doy > end_doy
wraps_year_inclusive(start_doy, end_doy) == start_doy >= end_doy

wraps_year(start_doy, end_doy) == start_doy > end_doy

\* event_config: the keys each entry defines.  "temp2m" stands for the eight
\* entries that define 'band' and 'value_expr'; "wind10m" is the entry that
\* defines 'bands' and 'special' instead.
EventConfigKeys(event_label) ==
    CASE event_label = "temp2m"  -> {"band", "value_prop", "value_expr", "title_suffix"}
      [] event_label = "wind10m" -> {"bands", "value_prop", "special", "title_suffix"}
      [] OTHER -> {}

EventLabels == {"temp2m", "wind10m", "unknown"}

Err(msg) == [kind |-> "error", msg |-> msg]

SeasonalRanges_365(wraps, start_doy, end_doy) ==
    IF ~wraps THEN << <<start_doy, end_doy>> >>
    ELSE << <<start_doy, 365>>, <<1, end_doy>> >>

\* the ee.Filter.dayOfYear ranges merged into `seasonal`
SeasonalRanges(wraps, start_doy, end_doy) ==
    IF ~wraps THEN << <<start_doy, end_doy>> >>
    ELSE << <<start_doy, 366>>, <<1, end_doy>> >>

\* build_gee_code(event_label, start_year, ..., locations_text)
build_gee_code(c) ==
    LET start_doy == compute_doy(c.start_month, c.start_day)
        end_doy   == compute_doy(c.end_month, c.end_day)
        wraps     == wraps_year(start_doy.val, end_doy.val)
    IN
    IF EventConfigKeys(c.event_label) = {} THEN Err("evento nao reconhecido")
    ELSE IF c.nLoc = 0 THEN Err("nenhuma localizacao valida")
    ELSE IF start_doy.isNone \/ end_doy.isNone THEN Err("mes/dia invalido")
    ELSE IF "band" \notin EventConfigKeys(c.event_label)
         THEN [kind |-> "raise", exc |-> "KeyError"]
    ELSE [kind |-> "script", generator |-> "build_gee_code",
          startYear |-> c.start_year, endYear |-> c.end_year,
          startDoy |-> start_doy.val, endDoy |-> end_doy.val,
          wraps |-> wraps,
          seasonal |-> SeasonalRanges(wraps, start_doy.val, end_doy.val),
          nLoc |-> c.nLoc]

(***************************************************************************)
(* daily_generator.py                                                      *)
(***************************************************************************)
\* build_gee_code_daily(start_year, ..., locations_text)
build_gee_code_daily(c) ==
    IF c.nLoc = 0 THEN Err("nenhuma localizacao valida")
    ELSE [kind |-> "script", generator |-> "build_gee_code_daily",
          startYear |-> c.start_year, endYear |-> c.end_year,
          startMonth |-> c.start_month, startDay |-> c.start_day,
          endMonth |-> c.end_month, endDay |-> c.end_day,
          nLoc |-> c.nLoc]

RefYearJs == 2001

\* var computeDoy = function(month, day) {...}
computeDoy(month, day) ==
    (DayNumber(RefYearJs, month, day) - DayNumber(RefYearJs, 1, 1)) + 1

\* var wrapsYear = startDoy.gt(endDoy)
wrapsYear(startDoy, endDoy) == startDoy > endDoy

inSeason_exclusive(wraps, doy, startDoy, endDoy) ==
    IF wraps THEN (doy > startDoy) \/ (doy < endDoy)
    ELSE (doy > startDoy) /\ (doy < endDoy)

\* var inSeason = ee.Algorithms.If(wrapsYear, ..., ...)
inSeason(wraps, doy, startDoy, endDoy) ==
    IF wraps THEN (doy >= startDoy) \/ (doy <= endDoy)
    ELSE (doy >= startDoy) /\ (doy <= endDoy)

\* var nDays = endDate.difference(startDate, 'day')
nDays(startYear, endYear) == DayNumber(endYear, 12, 31) - DayNumber(startYear, 1, 1)

(***************************************************************************)
(* Requests                                                                *)
(***************************************************************************)
Years == {2020, 2021}

ValidEndpoints == {<<1, 1>>, <<2, 15>>, <<3, 1>>, <<11, 15>>, <<12, 31>>}
InvalidEndpoints == {<<2, 29>>, <<2, 30>>, <<4, 31>>, <<0, 1>>, <<13, 1>>, <<1, 0>>}
Endpoints == ValidEndpoints \cup InvalidEndpoints

MaxLocations == 1

\* days for which the hourly collections hold no image
GapDays == {DayNumber(2020, 1, 1), DayNumber(2020, 11, 20), DayNumber(2021, 2, 15)}

InitGen ==
    /\ variant \in {"build_gee_code", "build_gee_code_daily"}
    /\ \E s \in Endpoints, e \in Endpoints, y1 \in Years, y2 \in Years,
          n \in 0..MaxLocations, l \in EventLabels :
          /\ y1 <= y2
          /\ variant = "build_gee_code_daily" => l = "temp2m"
          /\ call = [start_year |-> y1, end_year |-> y2,
                     start_month |-> s[1], start_day |-> s[2],
                     end_month |-> e[1], end_day |-> e[2],
                     event_label |-> l, nLoc |-> n]
    /\ result = Idle
    /\ gee = Idle
    /\ doyIn = <<0, 0>>
    /\ doyOut = Idle
    /\ df = Idle
    /\ params = Idle
    /\ masks = Idle

BuildGeeCode ==
    /\ variant = "build_gee_code"
    /\ result = Idle
    /\ result' = build_gee_code(call)
    /\ UNCHANGED <<variant, call, gee, doyIn, doyOut, tableVars>>

BuildGeeCodeDaily ==
    /\ variant = "build_gee_code_daily"
    /\ result = Idle
    /\ result' = build_gee_code_daily(call)
    /\ UNCHANGED <<variant, call, gee, doyIn, doyOut, tableVars>>

\* The emitted daily script, pasted into the Code Editor: the top-level
\* statements up to the first makeDailySeries call.  ee.Date.fromYMD is given
\* a real date of 2001 here; what the platform does with another pair is not
\* in this repository.
RunScript ==
    /\ result.kind = "script"
    /\ result.generator = "build_gee_code_daily"
    /\ gee = Idle
    /\ ValidDate(RefYearJs, result.startMonth, result.startDay)
    /\ ValidDate(RefYearJs, result.endMonth, result.endDay)
    /\ \E noData \in {{}, GapDays} :
         LET sd == computeDoy(result.startMonth, result.startDay)
             ed == computeDoy(result.endMonth, result.endDay)
         IN gee' = [kind |-> "running",
                    startDoy |-> sd, endDoy |-> ed,
                    wrapsYear |-> wrapsYear(sd, ed),
                    noData |-> noData,
                    loc |-> 1, d |-> 0, fc |-> {}, exports |-> <<>>]
    /\ UNCHANGED <<variant, call, result, doyIn, doyOut, tableVars>>

\* one element of days.map(function(d) {...}) in makeDailySeries
MakeDailySeriesStep ==
    /\ gee.kind = "running"
    /\ gee.d <= nDays(result.startYear, result.endYear) - 1
    /\ LET day  == DayNumber(result.startYear, 1, 1) + gee.d
           doy  == DoyOfDay(day)
           keep == /\ inSeason(gee.wrapsYear, doy, gee.startDoy, gee.endDoy)
                   /\ day \notin gee.noData
       IN gee' = [gee EXCEPT !.d = @ + 1,
                             !.fc = IF keep THEN @ \cup {day} ELSE @]
    /\ UNCHANGED <<variant, call, result, doyIn, doyOut, tableVars>>

\* fc.filter(notNull), Export.table.toDrive, next element of locations.forEach
ExportSeries ==
    /\ gee.kind = "running"
    /\ gee.d = nDays(result.startYear, result.endYear)
    /\ gee' = [gee EXCEPT !.exports = Append(@, gee.fc),
                          !.kind = IF gee.loc < result.nLoc THEN "running" ELSE "done",
                          !.loc = IF gee.loc < result.nLoc THEN @ + 1 ELSE @,
                          !.d = IF gee.loc < result.nLoc THEN 0 ELSE @,
                          !.fc = IF gee.loc < result.nLoc THEN {} ELSE @]
    /\ UNCHANGED <<variant, call, result, doyIn, doyOut, tableVars>>

NextGen ==
    \/ BuildGeeCode
    \/ BuildGeeCodeDaily
    \/ RunScript
    \/ MakeDailySeriesStep
    \/ ExportSeries

SpecGen == InitGen /\ [][NextGen]_vars

(***************************************************************************)
(* compute_doy on its own: every (month, day) of a grid that reaches past  *)
(* the calendar on both sides.                                             *)
(***************************************************************************)
MaxMonthArg == 13
MaxDayArg == 32

InitDoy ==
    /\ doyIn \in ((-1)..MaxMonthArg) \X ((-1)..MaxDayArg)
    /\ doyOut = Idle
    /\ variant = "compute_doy"
    /\ call = Idle
    /\ result = Idle
    /\ gee = Idle
    /\ df = Idle
    /\ params = Idle
    /\ masks = Idle

CallComputeDoy ==
    /\ variant = "compute_doy"
    /\ doyOut = Idle
    /\ doyOut' = compute_doy(doyIn[1], doyIn[2])
    /\ UNCHANGED <<variant, call, result, gee, doyIn, tableVars>>

NextDoy == CallComputeDoy

SpecDoy == InitDoy /\ [][NextDoy]_vars

(***************************************************************************)
(* Claims C1 - C5: the seasonal window                                     *)
(***************************************************************************)
\* the month lengths of a 365-day year, written out
NonLeapMonthLength == <<31, 28, 31, 30, 31, 30, 31, 31, 30, 31, 30, 31>>

IsNonLeapDate(m, d) == m \in 1..12 /\ d >= 1 /\ d <= NonLeapMonthLength[m]

CalendarBefore(m1, d1, m2, d2) == m1 < m2 \/ (m1 = m2 /\ d1 < d2)

\* day of year of a day number, from its calendar date
CalendarDoy(n) ==
    LET t == DateOfDay(n) IN DaysBeforeMonth(t.year, t.month) + t.day

WindowKeeps(start_doy, end_doy, doy) ==
    IF start_doy <= end_doy
    THEN start_doy <= doy /\ doy <= end_doy
    ELSE doy >= start_doy \/ doy <= end_doy

SeriesComplete ==
    /\ gee.kind \in {"running", "done"}
    /\ gee.d = nDays(result.startYear, result.endYear)

EvaluatedDays ==
    {DayNumber(result.startYear, 1, 1) + k : k \in 0..(gee.d - 1)}

CallStartDoy == compute_doy(call.start_month, call.start_day).val
CallEndDoy == compute_doy(call.end_month, call.end_day).val

\* C1: once the daily series of a location is complete, a day that has data is
\* in the series iff its day of year lies in the window: start <= doy <= end
\* for a window inside the year, doy >= start or doy <= end for a wrapping one;
\* a window with start = end keeps exactly the days with that day of year, and
\* the series holds nothing else.
C1_SeasonalMembership ==
    SeriesComplete =>
        LET start_doy == CallStartDoy
            end_doy   == CallEndDoy
            records   == EvaluatedDays \ gee.noData
        IN
        /\ \A day \in records :
              (day \in gee.fc) <=> WindowKeeps(start_doy, end_doy, CalendarDoy(day))
        /\ gee.fc \subseteq records
        /\ start_doy = end_doy =>
              gee.fc = {day \in records : CalendarDoy(day) = start_doy}

\* a one-day window over two years: one day of each year is kept
C1_Witness ==
    /\ SeriesComplete
    /\ CallStartDoy = CallEndDoy
    /\ {DateOfDay(day).year : day \in gee.fc} = {2020, 2021}
    /\ Cardinality(gee.fc) = 2

ScenarioB ==
    /\ SeriesComplete
    /\ gee.noData = {}
    /\ <<call.start_month, call.start_day>> = <<11, 15>>
    /\ <<call.end_month, call.end_day>> = <<2, 15>>
    /\ call.start_year = 2020
    /\ call.end_year = 2021

\* C2: with the window Nov 15 - Feb 15 over all days of 2020 and 2021, every
\* day from Nov 15 to Dec 31 2020 and from Jan 1 to Feb 15 2021 is retained,
\* and no retained day has a calendar date from March 1 to November 14.
C2_ScenarioB ==
    ScenarioB =>
        /\ \A n \in DayNumber(2020, 11, 15)..DayNumber(2020, 12, 31) : n \in gee.fc
        /\ \A n \in DayNumber(2021, 1, 1)..DayNumber(2021, 2, 15) : n \in gee.fc
        /\ \A n \in gee.fc :
              LET t == DateOfDay(n) IN
              ~ /\ ~CalendarBefore(t.month, t.day, 3, 1)
                /\ CalendarBefore(t.month, t.day, 11, 15)

\* C3: a window is classified as wrapping iff compute_doy of its start is
\* greater than compute_doy of its end, an equal start and end is not
\* wrapping, and build_gee_code and the script of build_gee_code_daily
\* classify the same endpoints alike.
C3_WindowKind ==
    LET wraps == CallStartDoy > CallEndDoy IN
    /\ (result.kind = "script" /\ result.generator = "build_gee_code") =>
          /\ result.wraps = wraps
          /\ result.wraps = wrapsYear(computeDoy(call.start_month, call.start_day),
                                      computeDoy(call.end_month, call.end_day))
          /\ result.startDoy = result.endDoy => ~result.wraps
    /\ gee.kind \in {"running", "done"} =>
          /\ gee.wrapsYear = wraps
          /\ gee.wrapsYear = wraps_year(CallStartDoy, CallEndDoy)
          /\ gee.startDoy = gee.endDoy => ~gee.wrapsYear

\* build_gee_code classified a window whose start and end are the same day
C3_Witness ==
    /\ result.kind = "script"
    /\ result.generator = "build_gee_code"
    /\ <<call.start_month, call.start_day>> = <<call.end_month, call.end_day>>
    /\ result.wraps = FALSE

\* C4: for a valid date of the non-leap year compute_doy lies in 1..365, the
\* next day of the month gets the next number, and a later (month, day) gets
\* a greater number.
C4_DoyRangeMonotonic ==
    (doyOut # Idle /\ IsNonLeapDate(doyIn[1], doyIn[2])) =>
        /\ ~doyOut.isNone
        /\ doyOut.val \in 1..365
        /\ IsNonLeapDate(doyIn[1], doyIn[2] + 1) =>
              compute_doy(doyIn[1], doyIn[2] + 1) = Some(doyOut.val + 1)
        /\ \A m \in 1..12 : \A d \in 1..NonLeapMonthLength[m] :
              CalendarBefore(doyIn[1], doyIn[2], m, d) =>
                  compute_doy(m, d).val > doyOut.val

\* compute_doy(12, 31) returned 365
C4_Witness ==
    /\ doyIn = <<12, 31>>
    /\ doyOut = Some(365)

HasInvalidEndpoint ==
    \/ ~IsNonLeapDate(call.start_month, call.start_day)
    \/ ~IsNonLeapDate(call.end_month, call.end_day)

\* C5: a window endpoint that is no date of the non-leap year is reported to
\* the caller as an error: no generator returns a script for it.
C5_InvalidEndpointRejected ==
    (variant \in {"build_gee_code", "build_gee_code_daily"}
        /\ result # Idle /\ HasInvalidEndpoint) => result.kind = "error"

(***************************************************************************)
(* Daily tables.  A table is [cols, rows]: cols the column names, rows a   *)
(* sequence of functions from cols to numbers.  "date" holds a day number. *)
(***************************************************************************)
Fields ==
    {"precip_mm", "tmin_C", "tmax_C", "tmean_C", "dew2m_mean_C", "soilw1_mean",
     "rad_Jm2_day", "rad_Wm2_mean", "pev_mm_day", "wind_mean_ms", "gust_max_ms"}

Raise(exc) == [kind |-> "raise", exc |-> exc]

Abs(x) == IF x < 0 THEN -x ELSE x

RECURSIVE SumSeq(_)
SumSeq(q) == IF q = <<>> THEN 0 ELSE q[1] + SumSeq(Tail(q))

MinOf(S) == CHOOSE x \in S : \A y \in S : x <= y
MaxOf(S) == CHOOSE x \in S : \A y \in S : x >= y

\* df[mask] / df.loc[mask]: the rows on which a boolean series is true
RECURSIVE SelectRows(_, _)
SelectRows(rows, bits) ==
    IF rows = <<>> THEN <<>>
    ELSE (IF bits[1] THEN <<rows[1]>> ELSE <<>>) \o SelectRows(Tail(rows), Tail(bits))

\* mask.sum()
CountTrue(bits) == Cardinality({i \in 1..Len(bits) : bits[i]})

(***************************************************************************)
(* Event detection.  era5_csv_page.py imports compute_event_masks from     *)
(* era5_daily_analysis and calls it with the seven thresholds; its body is *)
(* not in the source tree and is taken from the design (4.3, 4.4).         *)
(***************************************************************************)
EventKeys == {"frost", "rain_day", "heavy_rain", "heat", "strong_wind"}

RequiredFields(k) ==
    CASE k = "frost"       -> {"tmin_C", "dew2m_mean_C", "wind_mean_ms"}
      [] k = "rain_day"    -> {"precip_mm"}
      [] k = "heavy_rain"  -> {"precip_mm"}
      [] k = "heat"        -> {"tmax_C"}
      [] k = "strong_wind" -> {"gust_max_ms"}

SeverityField(k) ==
    CASE k = "frost"       -> "tmin_C"
      [] k = "rain_day"    -> "precip_mm"
      [] k = "heavy_rain"  -> "precip_mm"
      [] k = "heat"        -> "tmax_C"
      [] k = "strong_wind" -> "gust_max_ms"

EventPredicate(k, row, p) ==
    CASE k = "frost" ->
            /\ row["tmin_C"] <= p.frost_temp_C
            /\ row["wind_mean_ms"] <= p.frost_max_wind_ms
            /\ Abs(row["tmin_C"] - row["dew2m_mean_C"]) <= p.frost_max_dew_delta_C
      [] k = "rain_day"    -> row["precip_mm"] >= p.rain_threshold_mm
      [] k = "heavy_rain"  -> row["precip_mm"] >= p.heavy_rain_threshold_mm
      [] k = "heat"        -> row["tmax_C"] >= p.heat_threshold_C
      [] k = "strong_wind" -> row["gust_max_ms"] >= p.wind_gust_threshold_ms

compute_event_masks_allkeys(tab, p) ==
    [k \in EventKeys |->
        Some([i \in 1..Len(tab.rows) |->
                 RequiredFields(k) \subseteq tab.cols
                 /\ EventPredicate(k, tab.rows[i], p)])]

compute_event_masks(tab, p) ==
    [k \in {e \in EventKeys : RequiredFields(e) \subseteq tab.cols} |->
        Some([i \in 1..Len(tab.rows) |-> EventPredicate(k, tab.rows[i], p)])]

(***************************************************************************)
(* era5_daily_analysis.py                                                  *)
(***************************************************************************)
\* count_extreme_events(df, thresholds); thresholds is a sequence of
\* [var, cond], cond the set of bounds given: a subset of
\* {<<"lt", v>>, <<"gt", v>>}
ExtremeMask(tab, var, cond) ==
    [i \in 1..Len(tab.rows) |->
        /\ \A b \in cond : b[1] = "lt" => tab.rows[i][var] < b[2]
        /\ \A b \in cond : b[1] = "gt" => tab.rows[i][var] > b[2]]

ExtremeRow(tab, var, cond) ==
    LET mask   == ExtremeMask(tab, var, cond)
        n_days == CountTrue(mask)
        dates  == {r["date"] : r \in {tab.rows[i] : i \in {j \in 1..Len(mask) : mask[j]}}}
    IN [variable |-> var, condition |-> cond, n_days |-> n_days,
        first_date |-> IF n_days > 0 THEN Some(MinOf(dates)) ELSE None,
        last_date  |-> IF n_days > 0 THEN Some(MaxOf(dates)) ELSE None]

RECURSIVE count_extreme_events_noskip(_, _)
count_extreme_events_noskip(tab, thresholds) ==
    IF thresholds = <<>> THEN <<>>
    ELSE LET t == thresholds[1] IN
         (IF t.var \notin tab.cols
          THEN <<[variable |-> t.var, condition |-> t.cond, n_days |-> 0,
                  first_date |-> None, last_date |-> None]>>
          ELSE <<ExtremeRow(tab, t.var, t.cond)>>)
         \o count_extreme_events_noskip(tab, Tail(thresholds))

RECURSIVE count_extreme_events(_, _)
count_extreme_events(tab, thresholds) ==
    IF thresholds = <<>> THEN <<>>
    ELSE LET t == thresholds[1] IN
         (IF t.var \notin tab.cols THEN <<>> ELSE <<ExtremeRow(tab, t.var, t.cond)>>)
         \o count_extreme_events(tab, Tail(thresholds))

\* frost_stats(df, tmin_col="tmin_C", threshold_C)
frost_stats(tab, threshold_C) ==
    IF "tmin_C" \notin tab.cols THEN Raise("ValueError")
    ELSE LET mask   == [i \in 1..Len(tab.rows) |-> tab.rows[i]["tmin_C"] < threshold_C]
             n_days == CountTrue(mask)
             frost_dates == {tab.rows[i]["date"] : i \in {j \in 1..Len(mask) : mask[j]}}
         IN [kind |-> "ok", tmin_col |-> "tmin_C", threshold_C |-> threshold_C,
             n_frost_days |-> n_days,
             first_frost_date |-> IF n_days > 0 THEN Some(MinOf(frost_dates)) ELSE None,
             last_frost_date  |-> IF n_days > 0 THEN Some(MaxOf(frost_dates)) ELSE None]

\* df.sort_values("date").reset_index(drop=True)
RECURSIVE InsertByDate(_, _)
InsertByDate(row, sorted) ==
    IF sorted = <<>> THEN <<row>>
    ELSE IF row["date"] < sorted[1]["date"] THEN <<row>> \o sorted
    ELSE <<sorted[1]>> \o InsertByDate(row, Tail(sorted))

RECURSIVE SortByDate(_)
SortByDate(rows) ==
    IF rows = <<>> THEN <<>>
    ELSE InsertByDate(rows[Len(rows)], SortByDate(SubSeq(rows, 1, Len(rows) - 1)))

is_heavy_strict(rain, threshold_mm) == rain > threshold_mm

\* is_heavy = rain >= threshold_mm
is_heavy(rain, threshold_mm) == rain >= threshold_mm

RainEvent(dates, start_idx, end_idx) ==
    [start_date |-> dates[start_idx], end_date |-> dates[end_idx],
     length_days |-> (end_idx - start_idx) + 1]

\* for i, flag in enumerate(is_heavy): ...   (indices from 1 here)
RECURSIVE ScanRainEvents(_, _, _, _, _)
ScanRainEvents(flags, dates, min_consec_days, i, st) ==
    IF i > Len(flags)
    THEN \* caso termine em evento
         IF st.in_event /\ (Len(flags) - st.start_idx) + 1 >= min_consec_days
         THEN Append(st.events, RainEvent(dates, st.start_idx, Len(flags)))
         ELSE st.events
    ELSE IF flags[i] /\ ~st.in_event
         THEN ScanRainEvents(flags, dates, min_consec_days, i + 1,
                             [st EXCEPT !.in_event = TRUE, !.start_idx = i])
    ELSE IF ~flags[i] /\ st.in_event
         THEN ScanRainEvents(flags, dates, min_consec_days, i + 1,
                  [st EXCEPT !.in_event = FALSE,
                             !.events = IF ((i - 1) - st.start_idx) + 1 >= min_consec_days
                                        THEN Append(@, RainEvent(dates, st.start_idx, i - 1))
                                        ELSE @])
    ELSE ScanRainEvents(flags, dates, min_consec_days, i + 1, st)

\* heavy_rain_events(df, precip_col="precip_mm", threshold_mm, min_consec_days)
heavy_rain_events(tab, threshold_mm, min_consec_days) ==
    IF "precip_mm" \notin tab.cols THEN Raise("ValueError")
    ELSE LET df_sorted == SortByDate(tab.rows)
             flags  == [i \in 1..Len(df_sorted) |->
                           is_heavy(df_sorted[i]["precip_mm"], threshold_mm)]
             dates  == [i \in 1..Len(df_sorted) |-> df_sorted[i]["date"]]
             events == ScanRainEvents(flags, dates, min_consec_days, 1,
                           [in_event |-> FALSE, start_idx |-> 0, events |-> <<>>])
         IN [kind |-> "ok", precip_col |-> "precip_mm", threshold_mm |-> threshold_mm,
             min_consec_days |-> min_consec_days,
             n_events |-> Len(events), events |-> events]

(***************************************************************************)
(* summarize_event_frequency_severity is imported by era5_csv_page.py from *)
(* era5_daily_analysis but its body is not in the source tree; it is taken *)
(* from the design (4.5).  A mean or a percentage is the exact fraction    *)
(* num/den.                                                                *)
(***************************************************************************)
Frac(n, d) == [num |-> n, den |-> d]

summarize_event_frequency_severity(tab, ms) ==
    LET total_days == Len(tab.rows) IN
    [k \in DOMAIN ms |->
        LET bits   == ms[k].val
            n_days == CountTrue(bits)
            sub    == SelectRows(tab.rows, bits)
            sev    == SeverityField(k)
        IN [event_key |-> k, n_days |-> n_days, total_days |-> total_days,
            freq_pct |-> IF total_days = 0 THEN Frac(0, 1)
                         ELSE Frac(100 * n_days, total_days),
            severity_metric_name |-> sev,
            severity_mean |->
                IF n_days > 0 /\ sev \in tab.cols
                THEN Some(Frac(SumSeq([i \in 1..Len(sub) |-> sub[i][sev]]), n_days))
                ELSE None]]

(***************************************************************************)
(* era5_csv_page.py, sections 4 to 6: the threshold widgets and the call   *)
(* of compute_event_masks.  Values are in tenths.                          *)
(***************************************************************************)
\* the value= defaults of the seven number_input widgets
DefaultWidgets ==
    [frost_temp |-> 0, frost_max_wind |-> 30, frost_dew_delta |-> 20,
     rain_thresh |-> 2, heavy_rain_thresh |-> 200,
     heat_thresh |-> 350, wind_gust_thresh |-> 200]

\* widgets moved by their step
OtherWidgets ==
    [frost_temp |-> -10, frost_max_wind |-> 20, frost_dew_delta |-> 15,
     rain_thresh |-> 50, heavy_rain_thresh |-> 50,
     heat_thresh |-> 349, wind_gust_thresh |-> 199]

PageKwargs_swapped(w) ==
    [frost_temp_C |-> w.frost_temp,
     frost_max_wind_ms |-> w.frost_dew_delta,
     frost_max_dew_delta_C |-> w.frost_max_wind,
     rain_threshold_mm |-> w.rain_thresh,
     heavy_rain_threshold_mm |-> w.heavy_rain_thresh,
     heat_threshold_C |-> w.heat_thresh,
     wind_gust_threshold_ms |-> w.wind_gust_thresh]

\* the keyword arguments of the compute_event_masks call
PageKwargs(w) ==
    [frost_temp_C |-> w.frost_temp,
     frost_max_wind_ms |-> w.frost_max_wind,
     frost_max_dew_delta_C |-> w.frost_dew_delta,
     rain_threshold_mm |-> w.rain_thresh,
     heavy_rain_threshold_mm |-> w.heavy_rain_thresh,
     heat_threshold_C |-> w.heat_thresh,
     wind_gust_threshold_ms |-> w.wind_gust_thresh]

Day0 == DayNumber(2020, 1, 1)

AllCols == Fields \cup {"date"}

\* one record with every field; the six event fields vary
OneRowTables ==
    { [cols |-> AllCols,
       rows |-> << [c \in AllCols |->
                     CASE c = "date"         -> Day0
                       [] c = "tmin_C"       -> v[1]
                       [] c = "wind_mean_ms" -> v[2]
                       [] c = "dew2m_mean_C" -> v[3]
                       [] c = "precip_mm"    -> v[4]
                       [] c = "tmax_C"       -> v[5]
                       [] c = "gust_max_ms"  -> v[6]
                       [] OTHER              -> 0] >>] :
      v \in {-10, 0, 10} \X {20, 30, 50} \X {-25, -30, 20}
            \X {0, 2, 50, 200} \X {349, 350} \X {199, 200} }

\* ten consecutive days, precip_mm = 0,0,5,5,0,0,0,0,0,0
ScenarioAPrecip == <<0, 0, 50, 50, 0, 0, 0, 0, 0, 0>>

ScenarioATable ==
    [cols |-> {"date", "precip_mm"},
     rows |-> [i \in 1..Len(ScenarioAPrecip) |->
                  [c \in {"date", "precip_mm"} |->
                      IF c = "date" THEN Day0 + (i - 1) ELSE ScenarioAPrecip[i]]]]

\* the same ten days as they may arrive in a file: latest first
ScenarioAReversed ==
    [ScenarioATable EXCEPT
        !.rows = [i \in 1..Len(ScenarioAPrecip) |->
                     ScenarioATable.rows[(Len(ScenarioAPrecip) + 1) - i]]]

\* two records, any subset of the eleven fields
SubsetTables ==
    { [cols |-> F \cup {"date"},
       rows |-> [i \in 1..2 |->
                   [c \in F \cup {"date"} |->
                       IF c = "date" THEN Day0 + (i - 1)
                       ELSE IF i = 1 THEN -10 ELSE 400]]] :
      F \in SUBSET Fields }

\* three records with a missing calendar day between the first two
GapTables ==
    { [cols |-> {"date", "precip_mm"},
       rows |-> [i \in 1..3 |->
                   [c \in {"date", "precip_mm"} |->
                       IF c = "date" THEN <<Day0, Day0 + 2, Day0 + 3>>[i] ELSE v[i]]]] :
      v \in [1..3 -> {0, 50, 200}] }

EventTables ==
    OneRowTables \cup SubsetTables \cup GapTables
        \cup {ScenarioATable, ScenarioAReversed}

ThresholdDicts ==
    { <<[var |-> "tmin_C", cond |-> {<<"lt", 0>>}],
        [var |-> "precip_mm", cond |-> {<<"gt", 200>>}]>>,
      <<[var |-> "tmax_C", cond |-> {<<"gt", 349>>, <<"lt", 400>>}]>>,
      <<[var |-> "gust_max_ms", cond |-> {}],
        [var |-> "precip_mm", cond |-> {<<"gt", 2>>}]>> }

InitEvents ==
    /\ variant \in {"show_era5_csv_page", "frost_stats",
                    "heavy_rain_events", "count_extreme_events"}
    /\ df \in EventTables
    /\ params \in {DefaultWidgets, OtherWidgets}
    /\ call = Idle
    /\ result = Idle
    /\ masks = Idle
    /\ gee = Idle
    /\ doyIn = <<0, 0>>
    /\ doyOut = Idle

\* masks = compute_event_masks(...); if not masks: st.warning(...); return;
\* freq_sev = summarize_event_frequency_severity(df_for_analysis, masks)
PageComputeEvents ==
    /\ variant = "show_era5_csv_page"
    /\ result = Idle
    /\ masks' = compute_event_masks(df, PageKwargs(params))
    /\ result' = IF DOMAIN masks' = {} THEN [kind |-> "warning"]
                 ELSE [kind |-> "events",
                       freq_sev |-> summarize_event_frequency_severity(df, masks')]
    /\ UNCHANGED <<variant, call, gee, doyIn, doyOut, df, params>>

\* frost = frost_stats(df, threshold_C=args.frost_threshold)
FrostStats ==
    /\ variant = "frost_stats"
    /\ result = Idle
    /\ result' = frost_stats(df, params.frost_temp)
    /\ UNCHANGED <<variant, call, gee, doyIn, doyOut, tableVars>>

\* heavy_rain_events(df, threshold_mm=..., min_consec_days=...)
HeavyRainEvents ==
    /\ variant = "heavy_rain_events"
    /\ result = Idle
    /\ \E thr \in {params.rain_thresh, params.heavy_rain_thresh} :
       \E k \in 1..2 :
          /\ call' = [threshold_mm |-> thr, min_consec_days |-> k]
          /\ result' = heavy_rain_events(df, thr, k)
    /\ UNCHANGED <<variant, gee, doyIn, doyOut, tableVars>>

CountExtremeEvents ==
    /\ variant = "count_extreme_events"
    /\ result = Idle
    /\ \E th \in ThresholdDicts :
          /\ call' = [thresholds |-> th]
          /\ result' = [kind |-> "ok", rows |-> count_extreme_events(df, th)]
    /\ UNCHANGED <<variant, gee, doyIn, doyOut, tableVars>>

NextEvents == PageComputeEvents \/ FrostStats \/ HeavyRainEvents \/ CountExtremeEvents

SpecEvents == InitEvents /\ [][NextEvents]_vars

(***************************************************************************)
(* era5_report.py.  A dict is a function on its keys; None and the empty   *)
(* dict are both the empty function where the code only tests truthiness.  *)
(***************************************************************************)
Get(d, k) == IF k \in DOMAIN d THEN Some(d[k]) ELSE None

_safe_stats_zero(series) ==
    IF series = <<>>
    THEN [min |-> Some(0), max |-> Some(0), mean |-> Some(Frac(0, 1))]
    ELSE [min  |-> Some(MinOf({series[i] : i \in 1..Len(series)})),
          max  |-> Some(MaxOf({series[i] : i \in 1..Len(series)})),
          mean |-> Some(Frac(SumSeq(series), Len(series)))]

_safe_stats(series) ==
    IF series = <<>>
    THEN [min |-> None, max |-> None, mean |-> None]
    ELSE [min  |-> Some(MinOf({series[i] : i \in 1..Len(series)})),
          max  |-> Some(MaxOf({series[i] : i \in 1..Len(series)})),
          mean |-> Some(Frac(SumSeq(series), Len(series)))]

StatColumns ==
    {"precip_mm", "tmin_C", "tmax_C", "tmean_C", "dew2m_mean_C",
     "wind_mean_ms", "gust_max_ms"}

\* the body of "for key, mask in masks.items()"
EventStats(tab, mask, total_days) ==
    LET days == IF mask.isNone THEN 0 ELSE CountTrue(mask.val)
        prob == IF total_days > 0 THEN Frac(100 * days, total_days) ELSE Frac(0, 1)
        sub  == IF mask.isNone THEN <<>> ELSE SelectRows(tab.rows, mask.val)
    IN [days |-> days, prob_pct |-> prob,
        cols |-> [c \in StatColumns |->
                    IF c \in tab.cols
                    THEN Some(_safe_stats([i \in 1..Len(sub) |-> sub[i][c]]))
                    ELSE None]]

build_event_stats_for_report_noreturn(tab, ms) ==
    [k \in DOMAIN ms |-> EventStats(tab, ms[k], Len(tab.rows))]

build_event_stats_for_report(tab, ms) ==
    LET total_days == Len(tab.rows) IN
    IF total_days = 0 THEN <<>>
    ELSE [k \in DOMAIN ms |-> EventStats(tab, ms[k], total_days)]

_yearly_counts_nofill(tab, mask) ==
    IF "date" \notin tab.cols THEN <<>>
    ELSE IF tab.rows = <<>> THEN Raise("ValueError")
    ELSE LET years == [i \in 1..Len(tab.rows) |-> YearOfDay(tab.rows[i]["date"])]
             lo == MinOf({years[i] : i \in 1..Len(years)})
             hi == MaxOf({years[i] : i \in 1..Len(years)})
             counted(y) == IF mask.isNone THEN 0
                           ELSE Cardinality({i \in 1..Len(years) :
                                    mask.val[i] /\ years[i] = y})
             all_rows == [n \in 1..((hi - lo) + 1) |->
                            [year |-> (lo + n) - 1, days |-> counted((lo + n) - 1)]]
         IN SelectSeq(all_rows, LAMBDA r : r.days > 0)

\* _yearly_counts(df, mask): one [year, days] per year of min..max
_yearly_counts(tab, mask) ==
    IF "date" \notin tab.cols THEN <<>>
    ELSE IF tab.rows = <<>> THEN Raise("ValueError")
    ELSE LET years == [i \in 1..Len(tab.rows) |-> YearOfDay(tab.rows[i]["date"])]
             lo == MinOf({years[i] : i \in 1..Len(years)})
             hi == MaxOf({years[i] : i \in 1..Len(years)})
         IN [j \in 1..((hi - lo) + 1) |->
               [year |-> (lo + j) - 1,
                days |-> IF mask.isNone THEN 0
                         ELSE Cardinality({i \in 1..Len(years) :
                                  mask.val[i] /\ years[i] = (lo + j) - 1})]]

ReportKeys == <<"rain_day", "heavy_rain", "frost", "heat", "strong_wind">>

ParamNames ==
    {"frost_temp_C", "frost_max_wind_ms", "frost_max_dew_delta_C",
     "rain_threshold_mm", "heavy_rain_threshold_mm", "heat_threshold_C",
     "wind_gust_threshold_ms"}

Languages == {"pt", "en", "es"}

\* generate_pdf_report(df, seasonal_info, masks, freq_sev, params, meta, lang):
\* the story handed to doc.build
generate_pdf_report(tab, seasonal_info, ms, freq_sev, pars, meta, lang) ==
    LET n_days == Len(tab.rows)
        dates  == {tab.rows[i]["date"] : i \in 1..n_days}
        event_stats == build_event_stats_for_report(tab, ms)
        applied == /\ DOMAIN seasonal_info # {}
                   /\ "applied" \in DOMAIN seasonal_info
                   /\ seasonal_info["applied"]
    IN [kind |-> "pdf",
        lang |-> IF lang \in Languages THEN lang ELSE "pt",
        title_location |-> IF DOMAIN meta # {} /\ "location_name" \in DOMAIN meta
                           THEN Some(meta["location_name"]) ELSE None,
        has_map |-> /\ DOMAIN meta # {}
                    /\ "lat" \in DOMAIN meta
                    /\ "lon" \in DOMAIN meta,
        n_days |-> n_days,
        period |-> IF n_days > 0 /\ "date" \in tab.cols
                   THEN Some(<<MinOf(dates), MaxOf(dates)>>) ELSE None,
        season |-> IF applied
                   THEN [kind  |-> "applied",
                         start |-> IF "start" \in DOMAIN seasonal_info
                                   THEN seasonal_info["start"] ELSE <<1, 1>>,
                         end   |-> IF "end" \in DOMAIN seasonal_info
                                   THEN seasonal_info["end"] ELSE <<12, 31>>,
                         days_before |-> Get(seasonal_info, "days_before"),
                         days_after  |-> Get(seasonal_info, "days_after")]
                   ELSE [kind |-> "season_not_applied"],
        params |-> [n \in ParamNames |-> Get(pars, n)],
        stats |-> IF DOMAIN event_stats = {}
                  THEN [kind |-> "no_data"]
                  ELSE [kind |-> "table",
                        rows |-> [k \in {ReportKeys[j] : j \in 1..Len(ReportKeys)}
                                        \cap DOMAIN event_stats |->
                                    event_stats[k]]],
        charts |-> IF n_days = 0 \/ "date" \notin tab.cols
                   THEN [kind |-> "no_data"]
                   ELSE [kind |-> "charts",
                         yearly |-> [k \in {ReportKeys[j] : j \in 1..Len(ReportKeys)} |->
                                       _yearly_counts(tab,
                                           IF k \in DOMAIN ms THEN ms[k] ELSE None)]]]

MaxRows == 2

ReportColumnSets ==
    {{"date", "precip_mm"}, {"date", "precip_mm", "tmin_C"}, {"precip_mm"}}

ReportRows(C) ==
    { [c \in C |-> CASE c = "date"      -> v[1]
                     [] c = "precip_mm" -> v[2]
                     [] OTHER           -> -10] :
      v \in {Day0, Day0 + 800} \X {0, 50} }

ReportTables ==
    UNION { { [cols |-> C, rows |-> r] : r \in [1..n -> ReportRows(C)] } :
            <<C, n>> \in ReportColumnSets \X (0..MaxRows) }

\* a mask over n records, or None
MasksOver(n) == {None} \cup {Some(b) : b \in [1..n -> BOOLEAN]}

ReportMaskKeys == {{}, {"rain_day"}, {"rain_day", "frost"}}

ReportCalls ==
    << [seasonal_info |-> <<>>,
        params |-> PageKwargs(DefaultWidgets), meta |-> <<>>, lang |-> "pt"],
       [seasonal_info |-> [applied |-> TRUE, start |-> <<11, 15>>, end |-> <<2, 15>>,
                           days_before |-> 10, days_after |-> 5],
        params |-> PageKwargs(OtherWidgets),
        meta |-> [location_name |-> "Loc", lat |-> 0, lon |-> 0], lang |-> "en"],
       [seasonal_info |-> [start_month |-> 11, start_day |-> 15,
                           end_month |-> 2, end_day |-> 15],
        params |-> DefaultWidgets,
        meta |-> [location_name |-> "Loc"], lang |-> "fr"],
       [seasonal_info |-> [applied |-> FALSE],
        params |-> <<>>, meta |-> <<>>, lang |-> "es"] >>

InitReport ==
    /\ variant \in {"build_event_stats_for_report", "generate_pdf_report"}
    /\ df \in ReportTables
    /\ \E K \in ReportMaskKeys : masks \in [K -> MasksOver(Len(df.rows))]
    /\ \E j \in 1..Len(ReportCalls) :
          call = IF variant = "generate_pdf_report" THEN ReportCalls[j]
                 ELSE Idle
    /\ params = Idle
    /\ result = Idle
    /\ gee = Idle
    /\ doyIn = <<0, 0>>
    /\ doyOut = Idle

BuildEventStatsForReport ==
    /\ variant = "build_event_stats_for_report"
    /\ result = Idle
    /\ result' = [kind |-> "ok", stats |-> build_event_stats_for_report(df, masks)]
    /\ UNCHANGED <<variant, call, gee, doyIn, doyOut, tableVars>>

GeneratePdfReport ==
    /\ variant = "generate_pdf_report"
    /\ result = Idle
    /\ result' = generate_pdf_report(df, call.seasonal_info, masks, Idle,
                                     call.params, call.meta, call.lang)
    /\ UNCHANGED <<variant, call, gee, doyIn, doyOut, tableVars>>

NextReport == BuildEventStatsForReport \/ GeneratePdfReport

SpecReport == InitReport /\ [][NextReport]_vars

(***************************************************************************)
(* Event detection and aggregation properties                              *)
(***************************************************************************)
PageRan == variant = "show_era5_csv_page" /\ result.kind \in {"warning", "events"}

Computable(k) == RequiredFields(k) \subseteq df.cols

\* C6: for every subset of the eleven optional fields present in the table,
\* the event-mask mapping holds an event key only if all of that event's
\* required fields are present; an event with a missing field is absent from
\* the mapping (never present with an all-false mask); when no event is
\* computable the mapping is empty and the page warns instead of raising.
\* count_extreme_events likewise emits no row for a variable that is not a
\* column.
C6_MaskKeysComputable ==
    /\ PageRan =>
          /\ \A k \in DOMAIN masks : k \in EventKeys /\ Computable(k)
          /\ \A k \in EventKeys : ~Computable(k) => k \notin DOMAIN masks
          /\ \A k \in DOMAIN masks :
                ~masks[k].isNone /\ Len(masks[k].val) = Len(df.rows)
          /\ (\A k \in EventKeys : ~Computable(k)) =>
                (DOMAIN masks = {} /\ result.kind = "warning")
    /\ (variant = "count_extreme_events" /\ result.kind # "idle") =>
          /\ result.kind = "ok"
          /\ \A i \in 1..Len(result.rows) : result.rows[i].variable \in df.cols
          /\ Len(result.rows) =
                Cardinality({j \in 1..Len(call.thresholds) :
                                call.thresholds[j].var \in df.cols})

C6_Witness ==
    /\ PageRan
    /\ "precip_mm" \in df.cols
    /\ {"tmin_C", "dew2m_mean_C"} \subseteq df.cols
    /\ "wind_mean_ms" \notin df.cols
    /\ DOMAIN masks = {"rain_day", "heavy_rain"}

FrostRule(row, w) ==
    /\ row["tmin_C"] <= w.frost_temp
    /\ row["wind_mean_ms"] <= w.frost_max_wind
    /\ Abs(row["tmin_C"] - row["dew2m_mean_C"]) <= w.frost_dew_delta

ThresholdOf(k, w) ==
    CASE k = "rain_day"    -> w.rain_thresh
      [] k = "heavy_rain"  -> w.heavy_rain_thresh
      [] k = "heat"        -> w.heat_thresh
      [] k = "strong_wind" -> w.wind_gust_thresh

IsScenarioA == df \in {ScenarioATable, ScenarioAReversed} /\ params = DefaultWidgets

\* C8: threshold events are inclusive: rain_day iff precip_mm >=
\* rain_threshold_mm, heavy_rain iff precip_mm >= heavy_rain_threshold_mm, heat
\* iff tmax_C >= heat_threshold_C, strong_wind iff gust_max_ms >=
\* wind_gust_threshold_ms; a value equal to the threshold counts.  For ten days
\* with precip_mm = 0,0,5,5,0,0,0,0,0,0, rain threshold 0.2 and heavy threshold
\* 20, rain_day is true on days 3 and 4 only, heavy_rain on no day, and
\* freq_pct(rain_day) = 20.0.  heavy_rain_events covers exactly the days with
\* precip_mm >= threshold_mm.
C8_ThresholdInclusive ==
    /\ PageRan =>
          \A k \in DOMAIN masks \cap {"rain_day", "heavy_rain", "heat", "strong_wind"} :
          \A i \in 1..Len(df.rows) :
              masks[k].val[i] <=>
                  df.rows[i][SeverityField(k)] >= ThresholdOf(k, params)
    /\ (PageRan /\ IsScenarioA) =>
          /\ \A i \in 1..Len(df.rows) :
                /\ masks["rain_day"].val[i] <=>
                      df.rows[i]["date"] \in {Day0 + 2, Day0 + 3}
                /\ ~masks["heavy_rain"].val[i]
          /\ LET f == result.freq_sev["rain_day"].freq_pct
             IN f.num = 20 * f.den
    /\ (variant = "heavy_rain_events" /\ result.kind # "idle"
          /\ "precip_mm" \in df.cols) =>
          /\ result.kind = "ok"
          /\ call.min_consec_days = 1 =>
                \A i \in 1..Len(df.rows) :
                    (\E j \in 1..Len(result.events) :
                        /\ result.events[j].start_date <= df.rows[i]["date"]
                        /\ df.rows[i]["date"] <= result.events[j].end_date)
                    <=> df.rows[i]["precip_mm"] >= call.threshold_mm
          /\ (IsScenarioA /\ call.min_consec_days = 1) =>
                result.events =
                    IF call.threshold_mm = 2
                    THEN <<[start_date |-> Day0 + 2, end_date |-> Day0 + 3,
                            length_days |-> 2]>>
                    ELSE <<>>

C8_Witness ==
    /\ variant = "heavy_rain_events"
    /\ result.kind = "ok"
    /\ Len(df.rows) = 1
    /\ "precip_mm" \in df.cols
    /\ df.rows[1]["precip_mm"] = call.threshold_mm
    /\ result.n_events = 1

\* C9: for every table and every mask over it, each aggregated row has
\* n_days <= total_days and 0 <= freq_pct <= 100 with freq_pct = 100 * n_days /
\* total_days; when n_days = 0 the severity statistics of that event are None,
\* never 0.0.
C9_FrequencyBounds ==
    (variant = "build_event_stats_for_report" /\ result.kind = "ok") =>
        \A k \in DOMAIN result.stats :
            LET r == result.stats[k]
                total_days == Len(df.rows)
            IN /\ k \in DOMAIN masks
               /\ r.days = (IF masks[k].isNone THEN 0 ELSE CountTrue(masks[k].val))
               /\ 0 <= r.days /\ r.days <= total_days
               /\ r.prob_pct.den > 0
               /\ 0 <= r.prob_pct.num
               /\ r.prob_pct.num <= 100 * r.prob_pct.den
               /\ r.prob_pct.num * total_days = (100 * r.days) * r.prob_pct.den
               /\ \A c \in StatColumns :
                     /\ r.cols[c].isNone <=> c \notin df.cols
                     /\ (r.days = 0 /\ ~r.cols[c].isNone) =>
                           /\ r.cols[c].val.mean.isNone
                           /\ r.cols[c].val.min.isNone
                           /\ r.cols[c].val.max.isNone
                     /\ (r.days > 0 /\ ~r.cols[c].isNone) =>
                           ~r.cols[c].val.mean.isNone

C9_Witness ==
    /\ variant = "build_event_stats_for_report"
    /\ result.kind = "ok"
    /\ Len(df.rows) = 2
    /\ DOMAIN result.stats = {"rain_day", "frost"}
    /\ ~masks["rain_day"].isNone
    /\ result.stats["rain_day"].days = 0
    /\ result.stats["rain_day"].cols["precip_mm"].val.mean.isNone
    /\ result.stats["frost"].days = 1

\* C10: with a table of zero rows, aggregation raises nothing and divides by
\* nothing (an empty result, or rows that are all zero), and report generation
\* completes, reports n_days = 0, and takes the "no data" path both for the
\* statistics table and for the yearly charts.
C10_EmptyInput ==
    (result.kind # "idle" /\ Len(df.rows) = 0) =>
        /\ variant = "build_event_stats_for_report" =>
              /\ result.kind = "ok"
              /\ \A k \in DOMAIN result.stats :
                    /\ result.stats[k].days = 0
                    /\ result.stats[k].prob_pct.num = 0
        /\ variant = "generate_pdf_report" =>
              /\ result.kind = "pdf"
              /\ result.n_days = 0
              /\ result.period.isNone
              /\ result.stats.kind = "no_data"
              /\ result.charts.kind = "no_data"

C10_Witness ==
    /\ variant = "generate_pdf_report"
    /\ result.kind = "pdf"
    /\ Len(df.rows) = 0
    /\ "date" \in df.cols
    /\ DOMAIN masks = {"rain_day", "frost"}
    /\ result.n_days = 0

(***************************************************************************)
(* Downstream outputs and absent event keys                                *)
(***************************************************************************)
ReportKeySet == {ReportKeys[j] : j \in 1..Len(ReportKeys)}

\* C11: an event key absent from the masks mapping never appears in a
\* downstream output: no frequency/severity row, no statistics row in the
\* report and no yearly series (it is never shown as an event with zero days
\* in every year).
C11_AbsentKeyNoOutput ==
    /\ (variant = "build_event_stats_for_report" /\ result.kind = "ok") =>
          DOMAIN result.stats \subseteq DOMAIN masks
    /\ (variant = "generate_pdf_report" /\ result.kind = "pdf") =>
          \A k \in ReportKeySet \ DOMAIN masks :
              /\ result.stats.kind = "table" => k \notin DOMAIN result.stats.rows
              /\ result.charts.kind = "charts" => k \notin DOMAIN result.charts.yearly

\* C12: the yearly counts group each event's true days by the calendar year of
\* the record date, and the result holds a (year, event) row only for years in
\* which the event has at least one true day; a year without occurrences is
\* not emitted.
C12_YearlyOnlyOccurrences ==
    (variant = "generate_pdf_report" /\ result.kind = "pdf"
       /\ result.charts.kind = "charts") =>
        \A k \in ReportKeySet \cap DOMAIN masks :
            LET yearly == result.charts.yearly[k] IN
            \A j \in 1..Len(yearly) :
                /\ yearly[j].days =
                      Cardinality({i \in 1..Len(df.rows) :
                          /\ ~masks[k].isNone
                          /\ masks[k].val[i]
                          /\ YearOfDay(df.rows[i]["date"]) = yearly[j].year})
                /\ yearly[j].days >= 1

ZeroOccurrenceRow(r) ==
    /\ r.prob_pct.num = 0
    /\ \A c \in StatColumns :
          r.cols[c].isNone \/ r.cols[c].val.mean.isNone

\* the statistics rows that a table and a masks mapping must produce
StatsRowsComplete ==
    /\ (variant = "build_event_stats_for_report" /\ result.kind # "idle") =>
          /\ result.kind = "ok"
          /\ DOMAIN result.stats = DOMAIN masks
          /\ \A k \in DOMAIN result.stats :
                result.stats[k].days = 0 => ZeroOccurrenceRow(result.stats[k])
    /\ (variant = "generate_pdf_report" /\ result.kind # "idle") =>
          /\ result.kind = "pdf"
          /\ DOMAIN result.params = ParamNames
          /\ result.stats.kind = "no_data" => DOMAIN masks = {}
          /\ result.stats.kind = "table" =>
                /\ DOMAIN result.stats.rows = DOMAIN masks
                /\ \A k \in DOMAIN result.stats.rows :
                      result.stats.rows[k].days = 0 =>
                          ZeroOccurrenceRow(result.stats.rows[k])

\* C13: the report statistics hold one row per event type present in masks,
\* an event with zero occurrences included (days = 0, probability 0,
\* statistics null), for every record table, the empty one included; the
\* payload is fully defined and is produced without raising.
C13_StatsRowPerEvent == StatsRowsComplete

(***************************************************************************)
(* Error handling of the analysis functions                                *)
(***************************************************************************)
\* C14: a missing required column is never raised as an exception by an
\* analysis function: on a table lacking tmin_C, precip_mm or another event
\* field, the function returns a result in which that event is absent, and
\* the remaining events are still computed.
C14_MissingColumnNotRaised ==
    /\ result.kind # "raise"
    /\ PageRan => \A k \in EventKeys : Computable(k) => k \in DOMAIN masks
    /\ (variant = "count_extreme_events" /\ result.kind = "ok") =>
          \A j \in 1..Len(call.thresholds) :
              call.thresholds[j].var \in df.cols =>
                  \E i \in 1..Len(result.rows) :
                      result.rows[i].variable = call.thresholds[j].var

\* C15: only an invalid seasonal window may halt a pipeline run: for every
\* loaded table and every other condition (zero rows, no computable event,
\* missing columns) the run goes on through aggregation with empty or zero but
\* well-formed results instead of stopping or raising.
C15_OnlyWindowHalts ==
    PageRan =>
        /\ result.kind = "events"
        /\ DOMAIN result.freq_sev = DOMAIN masks
        /\ \A k \in DOMAIN masks : result.freq_sev[k].total_days = Len(df.rows)

(***************************************************************************)
(* era5_daily_analysis.py, load_era5_daily_from_gee.  A file is            *)
(* [empty, header, lines]: header the comma-separated names of the first   *)
(* line, each later line a [form, cells] with the text of its cells.       *)
(*   "quoted_geo": the whole line in quotes, ending in ,""{...}""          *)
(*   "csv_geo"   : unquoted values, then ,"{""type"":...,""coordinates""   *)
(*                 :[]}"  (the geometry holds one comma)                   *)
(*   "plain"     : the values only                                         *)
(*   "blank"     : an empty line                                           *)
(* A loaded cell is Some(number) or None (NaT / NaN).                      *)
(***************************************************************************)
\* pd.to_datetime(text, errors="coerce")
to_datetime(text) ==
    CASE text = "2020-01-01" -> Some(DayNumber(2020, 1, 1))
      [] text = "2021-02-04" -> Some(DayNumber(2021, 2, 4))
      [] OTHER               -> None

\* pd.to_numeric(text, errors="coerce"), in tenths
to_numeric(text) ==
    CASE text = "0"   -> Some(0)
      [] text = "5.0" -> Some(50)
      [] text = "-1"  -> Some(-10)
      [] OTHER        -> None

\* s.find(',""{') cut, then split(",")
LineParts(line) ==
    CASE line.form = "csv_geo" ->
            line.cells \o <<"\"{\"\"type\"\":\"\"MultiPoint\"\"", "\"\"coordinates\"\":[]}\"">>
      [] OTHER -> line.cells

IndexOf(q, x) == CHOOSE i \in 1..Len(q) : q[i] = x

SeqRange(q) == {q[i] : i \in 1..Len(q)}

load_era5_daily_from_gee(file) ==
    IF file.empty THEN Raise("ValueError")
    ELSE LET cols  == SubSeq(file.header, 1, Len(file.header) - 1)
             kept  == SelectSeq(file.lines, LAMBDA l : l.form # "blank")
             rows  == [i \in 1..Len(kept) |-> LineParts(kept[i])]
             unique_lengths == {Len(rows[i]) : i \in 1..Len(rows)}
         IN IF Cardinality(unique_lengths) # 1 \/ unique_lengths # {Len(cols)}
            THEN Raise("ValueError")
            ELSE IF "date" \notin SeqRange(cols) THEN Raise("ValueError")
            ELSE [kind |-> "ok",
                  columns |-> cols,
                  cols |-> SeqRange(cols),
                  rows |-> [i \in 1..Len(rows) |->
                             [c \in SeqRange(cols) |->
                                LET text == rows[i][IndexOf(cols, c)] IN
                                IF c = "date" THEN to_datetime(text)
                                ELSE IF c = "system:index" THEN Some(text)
                                ELSE to_numeric(text)]]]

\* detect_variable_columns(df): every column but the two ignored ones is
\* numeric after to_numeric
detect_variable_columns(tab) ==
    SelectSeq(tab.columns, LAMBDA c : c \notin {"system:index", "date"})

MaxLines == 2

Headers ==
    { <<"system:index", "date", "precip_mm", ".geo">>,
      <<"system:index", "date", "precip_mm">>,
      <<"date", "lat", "tmin_C", ".geo">>,
      <<"system:index", "precip_mm", ".geo">>,
      <<"date", ".geo">>,
      <<"date">> }

\* the names of a header that carry values in the data lines
DataNames(header) ==
    IF header[Len(header)] = ".geo" THEN SubSeq(header, 1, Len(header) - 1)
    ELSE header

CellTexts(name) ==
    CASE name = "system:index" -> {"0"}
      [] name = "date"         -> {"2020-01-01", "2021-02-04", "not-a-date"}
      [] name = "lat"          -> {"-1"}
      [] OTHER                 -> {"0", "5.0", ""}

\* the lines a file with this header can hold: one text per data name
LinesOf(header) ==
    LET names == DataNames(header) IN
    { [form |-> f, cells |-> c] :
        <<f, c>> \in
          (IF header[Len(header)] = ".geo" THEN {"quoted_geo", "csv_geo"}
           ELSE {"plain"})
          \X {c \in [1..Len(names) -> UNION {CellTexts(names[i]) : i \in 1..Len(names)}] :
                \A i \in 1..Len(names) : c[i] \in CellTexts(names[i])} }
    \cup {[form |-> "blank", cells |-> <<>>]}

InitLoad ==
    /\ variant = "load_era5_daily_from_gee"
    /\ \/ call = [empty |-> TRUE, header |-> <<>>, lines |-> <<>>]
       \/ \E h \in Headers : \E n \in 0..MaxLines :
             \E ls \in [1..n -> LinesOf(h)] :
                call = [empty |-> FALSE, header |-> h, lines |-> ls]
    /\ result = Idle
    /\ df = Idle
    /\ params = Idle
    /\ masks = Idle
    /\ gee = Idle
    /\ doyIn = <<0, 0>>
    /\ doyOut = Idle

\* df = load_era5_daily_from_gee(args.csv); var_cols = detect_variable_columns(df)
LoadCsv ==
    /\ variant = "load_era5_daily_from_gee"
    /\ result = Idle
    /\ LET loaded == load_era5_daily_from_gee(call) IN
          IF loaded.kind = "raise"
          THEN result' = loaded /\ df' = df
          ELSE /\ df' = loaded
               /\ result' = [kind |-> "ok", var_cols |-> detect_variable_columns(loaded)]
    /\ UNCHANGED <<variant, call, gee, doyIn, doyOut, params, masks>>

NextLoad == LoadCsv

SpecLoad == InitLoad /\ [][NextLoad]_vars

(***************************************************************************)
(* Loader properties                                                       *)
(***************************************************************************)
Loaded == variant = "load_era5_daily_from_gee" /\ result.kind = "ok"

\* C16: after loading, every row of the table has a date that is a valid
\* calendar date: a line whose date cannot be parsed is dropped at load time,
\* never kept with a missing date.
C16_LoadedDatesValid ==
    Loaded => \A i \in 1..Len(df.rows) : ~df.rows[i]["date"].isNone

\* a file with the date column and at least one data line, every line either
\* the values alone or the quoted form with the geometry tail
WellFormedFile ==
    /\ variant = "load_era5_daily_from_gee"
    /\ ~call.empty
    /\ "date" \in SeqRange(call.header)
    /\ \E i \in 1..Len(call.lines) : call.lines[i].form # "blank"
    /\ \A i \in 1..Len(call.lines) : call.lines[i].form # "csv_geo"

\* C20: the loader accepts any file that has the date column plus any of the
\* named fields plus unknown extra columns: extra columns are tolerated, a file
\* without a trailing geometry column is loaded with all its data columns, and
\* no column of data is discarded.
C20_LoaderKeepsColumns ==
    (WellFormedFile /\ result.kind # "idle") =>
        /\ result.kind = "ok"
        /\ df.cols = SeqRange(DataNames(call.header))
        /\ result.var_cols =
              SelectSeq(DataNames(call.header),
                        LAMBDA c : c \notin {"system:index", "date"})

(***************************************************************************)
(* Seasonal window of the analysis page.  apply_seasonal_window is         *)
(* imported by era5_csv_page.py from era5_daily_analysis but its body is   *)
(* not in the source tree; it is taken from the design (4.1, 4.2): the     *)
(* window endpoints are numbered by compute_doy, a record by the day of    *)
(* year of its own date.  The records are loaded rows: a date is           *)
(* Some(day number) or None (NaT).                                         *)
(***************************************************************************)
InWindow(row, start_doy, end_doy) ==
    LET doy == DoyOfDay(row["date"].val) IN
    IF wraps_year(start_doy, end_doy)
    THEN doy >= start_doy \/ doy <= end_doy
    ELSE doy >= start_doy /\ doy <= end_doy

WindowResult(tab, s, e, kept, reason) ==
    [kind |-> "ok",
     filtered |-> [cols |-> tab.cols, rows |-> kept],
     info |-> [start_doy |-> s, end_doy |-> e, wraps |-> wraps_year(s, e),
               days_before |-> Len(tab.rows), days_after |-> Len(kept),
               reason |-> reason]]

apply_seasonal_window_dropfirst(tab, w) ==
    LET s == compute_doy(w.start_month, w.start_day)
        e == compute_doy(w.end_month, w.end_day)
    IN IF s.isNone \/ e.isNone THEN Raise("InvalidDateError")
       ELSE IF tab.rows = <<>> THEN WindowResult(tab, s.val, e.val, <<>>, "empty")
       ELSE IF \E i \in 1..Len(tab.rows) : tab.rows[i]["date"].isNone
            THEN WindowResult(tab, s.val, e.val, <<>>, "unparseable_date")
       ELSE LET kept == SelectSeq(tab.rows, LAMBDA r : InWindow(r, s.val, e.val))
            IN WindowResult(tab, s.val, e.val,
                            IF kept = <<>> THEN <<>> ELSE Tail(kept), "none")

apply_seasonal_window(tab, w) ==
    LET s == compute_doy(w.start_month, w.start_day)
        e == compute_doy(w.end_month, w.end_day)
    IN IF s.isNone \/ e.isNone THEN Raise("InvalidDateError")
       ELSE IF tab.rows = <<>> THEN WindowResult(tab, s.val, e.val, <<>>, "empty")
       ELSE IF \E i \in 1..Len(tab.rows) : tab.rows[i]["date"].isNone
            THEN WindowResult(tab, s.val, e.val, <<>>, "unparseable_date")
       ELSE WindowResult(tab, s.val, e.val,
                SelectSeq(tab.rows, LAMBDA r : InWindow(r, s.val, e.val)), "none")

PageWindowKwargs_transposed(c) ==
    [start_month |-> c.start_day, start_day |-> c.start_month,
     end_month |-> c.end_day, end_day |-> c.end_month]

\* the keyword arguments of the apply_seasonal_window call
PageWindowKwargs(c) ==
    [start_month |-> c.start_month, start_day |-> c.start_day,
     end_month |-> c.end_month, end_day |-> c.end_day]

MaxSeasonRows == 2

\* month from the selectbox, day from a number_input of 1..31
WindowWidgets == {<<1, 1>>, <<2, 15>>, <<2, 31>>, <<11, 15>>, <<12, 31>>}

SeasonDates ==
    {None} \cup
    {Some(d) : d \in {DayNumber(2020, 1, 1), DayNumber(2020, 2, 15),
                      DayNumber(2020, 11, 14), DayNumber(2020, 11, 15),
                      DayNumber(2021, 3, 1)}}

SeasonTables ==
    UNION { { [cols |-> {"date", "precip_mm"},
               rows |-> [i \in 1..n |-> [c \in {"date", "precip_mm"} |->
                            IF c = "date" THEN ds[i] ELSE Some(0)]]] :
              ds \in [1..n -> SeasonDates] } :
            n \in 0..MaxSeasonRows }

InitSeason ==
    /\ variant = "apply_seasonal_window"
    /\ df \in SeasonTables
    /\ \E use \in BOOLEAN : \E s \in WindowWidgets : \E e \in WindowWidgets :
          call = [use_seasonal |-> use, start_month |-> s[1], start_day |-> s[2],
                  end_month |-> e[1], end_day |-> e[2]]
    /\ result = Idle
    /\ params = Idle
    /\ masks = Idle
    /\ gee = Idle
    /\ doyIn = <<0, 0>>
    /\ doyOut = Idle

\* section 2 of the page: df_for_analysis = df.copy(); if use_seasonal:
\* try: df_for_analysis = apply_seasonal_window(...); seasonal_info = {...}
\* except Exception: st.error(...); return
PageSeasonalWindow ==
    /\ variant = "apply_seasonal_window"
    /\ result = Idle
    /\ result' =
          IF ~call.use_seasonal
          THEN [kind |-> "not_applied", df_for_analysis |-> df, seasonal_info |-> <<>>]
          ELSE LET applied == apply_seasonal_window(df, PageWindowKwargs(call)) IN
               IF applied.kind = "raise" THEN [kind |-> "error", applied |-> applied]
               ELSE [kind |-> "window_applied",
                     applied |-> applied,
                     df_for_analysis |-> applied.filtered,
                     seasonal_info |-> [start_month |-> call.start_month,
                                        start_day |-> call.start_day,
                                        end_month |-> call.end_month,
                                        end_day |-> call.end_day]]
    /\ UNCHANGED <<variant, call, gee, doyIn, doyOut, tableVars>>

NextSeason == PageSeasonalWindow

SpecSeason == InitSeason /\ [][NextSeason]_vars

(***************************************************************************)
(* Seasonal filter properties                                              *)
(***************************************************************************)
WindowCalled == variant = "apply_seasonal_window" /\ result.kind \in {"error", "window_applied"}

WindowInvalid ==
    \/ ~ValidDate(RefYear, call.start_month, call.start_day)
    \/ ~ValidDate(RefYear, call.end_month, call.end_day)

DegenerateRecords ==
    \/ df.rows = <<>>
    \/ \E i \in 1..Len(df.rows) : df.rows[i]["date"].isNone

RECURSIVE IsSubsequence(_, _)
IsSubsequence(a, b) ==
    IF a = <<>> THEN TRUE
    ELSE IF b = <<>> THEN FALSE
    ELSE IF a[1] = b[1] THEN IsSubsequence(Tail(a), Tail(b))
    ELSE IsSubsequence(a, Tail(b))

\* C18: the seasonal filter is idempotent: for every record set and valid
\* window, filtering the filter's output again with the same window returns
\* the same record set; the output is a subsequence of the input in the
\* original order, so days_after <= days_before.
C18_FilterIdempotent ==
    (variant = "apply_seasonal_window" /\ result.kind = "window_applied") =>
        LET once  == result.applied
            twice == apply_seasonal_window(once.filtered, PageWindowKwargs(call))
        IN /\ twice.kind = "ok"
           /\ twice.filtered = once.filtered
           /\ IsSubsequence(once.filtered.rows, df.rows)
           /\ once.info.days_before = Len(df.rows)
           /\ once.info.days_after = Len(once.filtered.rows)
           /\ once.info.days_after <= once.info.days_before

C18_Witness ==
    /\ variant = "apply_seasonal_window"
    /\ result.kind = "window_applied"
    /\ Len(df.rows) = 2
    /\ Len(result.df_for_analysis.rows) = 1
    /\ result.df_for_analysis.rows[1] = df.rows[2]

(***************************************************************************)
(* An analysis session: one uploaded table, any sequence of analysis calls *)
(* on it.  call.uploaded remembers the table as it was uploaded.           *)
(***************************************************************************)
sort_values_arg_inplace(tab) == [tab EXCEPT !.rows = SortByDate(tab.rows)]

\* the caller's table after df_sorted = df.sort_values("date").reset_index(drop=True):
\* sort_values without inplace returns a new frame
sort_values_arg(tab) == tab

\* the scenario tables and two-record tables in either date order
SessionTables ==
    {ScenarioATable, ScenarioAReversed}
    \cup { [cols |-> AllCols,
            rows |-> [i \in 1..2 |->
                        [c \in AllCols |->
                            CASE c = "date"      -> v[1][i]
                              [] c = "precip_mm" -> v[2][i]
                              [] c = "tmin_C"    -> IF i = 1 THEN -10 ELSE 10
                              [] OTHER           -> 0]]] :
           v \in {<<Day0, Day0 + 1>>, <<Day0 + 1, Day0>>}
                 \X {<<0, 200>>, <<50, 50>>, <<200, 2>>} }

NoArgs == [threshold_mm |-> 0, min_consec_days |-> 0, thresholds |-> <<>>]

InitSession ==
    /\ variant = "session"
    /\ df \in SessionTables
    /\ call = [uploaded |-> df, have_masks |-> FALSE, args |-> NoArgs]
    /\ params = DefaultWidgets
    /\ result = Idle
    /\ masks = Idle
    /\ gee = Idle
    /\ doyIn = <<0, 0>>
    /\ doyOut = Idle

\* a run of the page with the widgets at some values
SessionPage ==
    /\ \E w \in {DefaultWidgets, OtherWidgets} :
          /\ params' = w
          /\ masks' = compute_event_masks(df, PageKwargs(w))
    /\ result' = IF DOMAIN masks' = {} THEN [kind |-> "warning"]
                 ELSE [kind |-> "events",
                       freq_sev |-> summarize_event_frequency_severity(df, masks')]
    /\ variant' = "show_era5_csv_page"
    /\ call' = [call EXCEPT !.have_masks = TRUE, !.args = NoArgs]
    /\ UNCHANGED <<df, gee, doyIn, doyOut>>

SessionFrostStats ==
    /\ result' = frost_stats(df, params.frost_temp)
    /\ variant' = "frost_stats"
    /\ call' = [call EXCEPT !.args = NoArgs]
    /\ UNCHANGED <<df, params, masks, gee, doyIn, doyOut>>

SessionHeavyRainEvents ==
    /\ \E thr \in {params.rain_thresh, params.heavy_rain_thresh} :
       \E k \in 1..2 :
          /\ call' = [call EXCEPT !.args = [NoArgs EXCEPT !.threshold_mm = thr,
                                                          !.min_consec_days = k]]
          /\ result' = heavy_rain_events(df, thr, k)
    /\ df' = sort_values_arg(df)
    /\ variant' = "heavy_rain_events"
    /\ UNCHANGED <<params, masks, gee, doyIn, doyOut>>

SessionCountExtremeEvents ==
    /\ \E th \in ThresholdDicts :
          /\ call' = [call EXCEPT !.args = [NoArgs EXCEPT !.thresholds = th]]
          /\ result' = [kind |-> "ok", rows |-> count_extreme_events(df, th)]
    /\ variant' = "count_extreme_events"
    /\ UNCHANGED <<df, params, masks, gee, doyIn, doyOut>>

SessionBuildEventStats ==
    /\ call.have_masks
    /\ result' = [kind |-> "ok", stats |-> build_event_stats_for_report(df, masks)]
    /\ variant' = "build_event_stats_for_report"
    /\ call' = [call EXCEPT !.args = NoArgs]
    /\ UNCHANGED <<df, params, masks, gee, doyIn, doyOut>>

NextSession ==
    \/ SessionPage
    \/ SessionFrostStats
    \/ SessionHeavyRainEvents
    \/ SessionCountExtremeEvents
    \/ SessionBuildEventStats

SpecSession == InitSession /\ [][NextSession]_vars

YearsOf(tab, bits) ==
    {YearOfDay(tab.rows[i]["date"].val) :
        i \in {j \in 1..Len(tab.rows) : bits[j] /\ ~tab.rows[j]["date"].isNone}}

\* one row per (event, year) in which the event has a true day
yearly_event_counts(tab, ms) ==
    UNION { { [event_key |-> k, year |-> y,
               dias_evento |-> Cardinality({i \in 1..Len(tab.rows) :
                                  /\ ms[k].val[i]
                                  /\ ~tab.rows[i]["date"].isNone
                                  /\ YearOfDay(tab.rows[i]["date"].val) = y})] :
              y \in YearsOf(tab, ms[k].val) } :
            k \in DOMAIN ms }

\* summarize_daily_variables(df, var_cols): n_days, min and max of each
\* variable (the other statistics are left out)
summarize_daily_variables(tab, var_cols) ==
    [j \in 1..Len(var_cols) |->
        LET series == [i \in 1..Len(tab.rows) |-> tab.rows[i][var_cols[j]]] IN
        [variable |-> var_cols[j], n_days |-> Len(series),
         min |-> IF series = <<>> THEN None
                 ELSE Some(MinOf({series[i] : i \in 1..Len(series)})),
         max |-> IF series = <<>> THEN None
                 ELSE Some(MaxOf({series[i] : i \in 1..Len(series)}))]]

(***************************************************************************)
(* Binding of a Python call to a signature: the positional values take the *)
(* first parameters; a keyword that is not a parameter, a parameter given  *)
(* twice, too many positionals, or a parameter without value and without   *)
(* default raise TypeError before the body runs.                           *)
(***************************************************************************)
BindArguments(signature, defaults, positional, keywords) ==
    LET byPosition == {signature[i] : i \in (1..Len(positional)) \cap (1..Len(signature))}
        given == byPosition \cup (DOMAIN keywords)
    IN IF Len(positional) > Len(signature) THEN Raise("TypeError")
       ELSE IF \E k \in DOMAIN keywords : k \notin SeqRange(signature)
            THEN Raise("TypeError")
       ELSE IF (DOMAIN keywords) \cap byPosition # {} THEN Raise("TypeError")
       ELSE IF \E n \in SeqRange(signature) : n \notin given /\ n \notin DOMAIN defaults
            THEN Raise("TypeError")
       ELSE [kind |-> "bound",
             args |-> [n \in SeqRange(signature) |->
                          IF n \in byPosition THEN positional[IndexOf(signature, n)]
                          ELSE IF n \in DOMAIN keywords THEN keywords[n]
                          ELSE defaults[n]]]

\* def generate_pdf_report(df, seasonal_info, masks, freq_sev, params,
\*                         meta=None, lang="pt")
ReportSignature ==
    <<"df", "seasonal_info", "masks", "freq_sev", "params", "meta", "lang">>

ReportDefaults == [meta |-> <<>>, lang |-> "pt"]

\* params_dict of the page
PageParamsDict(w) ==
    [frost_temp |-> w.frost_temp, frost_max_wind |-> w.frost_max_wind,
     frost_dew_delta |-> w.frost_dew_delta, rain_thresh |-> w.rain_thresh,
     heavy_rain_thresh |-> w.heavy_rain_thresh, heat_thresh |-> w.heat_thresh,
     wind_gust_thresh |-> w.wind_gust_thresh]

\* pdf_bytes = generate_pdf_report(df_for_analysis, masks, freq_sev,
\*     params_dict, seasonal_info=..., lang=..., location_name=..., lat=..., lon=...)
PageReportCall(run, ms, w) ==
    LET bound == BindArguments(ReportSignature, ReportDefaults,
                     <<run.df_for_analysis, ms, run.freq_sev, PageParamsDict(w)>>,
                     [seasonal_info |-> run.seasonal_info, lang |-> "pt",
                      location_name |-> "Localização", lat |-> 0, lon |-> 0])
    IN IF bound.kind = "raise" THEN bound
       ELSE generate_pdf_report(bound.args["df"], bound.args["seasonal_info"],
                                bound.args["masks"], bound.args["freq_sev"],
                                bound.args["params"], bound.args["meta"],
                                bound.args["lang"])

MaxPageRows == 2

PageColumnSets == {{"date", "precip_mm", "tmax_C"}, {"date"}}

PageRows(C) ==
    { [c \in C |-> CASE c = "date"      -> Some(v[1])
                     [] c = "precip_mm" -> v[2]
                     [] OTHER           -> 350] :
      v \in {DayNumber(2020, 1, 1), DayNumber(2020, 7, 1), DayNumber(2021, 2, 4)}
            \X {0, 50} }

PageTables ==
    UNION { { [cols |-> C, rows |-> r] : r \in [1..n -> PageRows(C)] } :
            <<C, n>> \in PageColumnSets \X (0..MaxPageRows) }

\* the widgets of one run: the window, and whether the report button is pressed
PageInputs ==
    { [use_seasonal |-> u, start_month |-> w[1], start_day |-> w[2],
       end_month |-> w[3], end_day |-> w[4], button |-> b] :
      <<u, w, b>> \in BOOLEAN
                      \X {<<1, 1, 12, 31>>, <<11, 15, 2, 15>>, <<2, 31, 3, 1>>}
                      \X BOOLEAN }

MaxRuns == 2

\* the state at the top of the script in run number n
NewRun(n) ==
    [run |-> n, pc |-> "start", stages |-> <<>>, df_for_analysis |-> Idle, seasonal_info |-> <<>>,
     summary |-> Idle, freq_sev |-> Idle, yearly |-> Idle, report |-> Idle]

InitPage ==
    /\ variant = "show_era5_csv_page"
    /\ df \in PageTables
    /\ call \in PageInputs
    /\ params \in {DefaultWidgets, OtherWidgets}
    /\ result = NewRun(1)
    /\ masks = Idle
    /\ gee = Idle
    /\ doyIn = <<0, 0>>
    /\ doyOut = Idle

\* seasonal_info of a run with the window applied
PageSeasonalInfo(w) ==
    [start_month |-> w.start_month, start_day |-> w.start_day,
     end_month |-> w.end_month, end_day |-> w.end_day]

PageAnalysisTable_unfiltered(tab, run) == tab

\* the table every stage after section 2 is given: df_for_analysis
PageAnalysisTable(tab, run) == run.df_for_analysis

\* sections 1 to 3: preview, var_cols, the seasonal window, the summary
PageSeasonStage ==
    /\ result.pc = "start"
    /\ LET applied == apply_seasonal_window(df, PageWindowKwargs(call))
           filtered == IF call.use_seasonal THEN applied.filtered ELSE df
           var_cols == SelectSeq(<<"precip_mm", "tmax_C">>, LAMBDA c : c \in df.cols)
       IN result' =
            IF call.use_seasonal /\ applied.kind = "raise"
            THEN [result EXCEPT !.pc = "halted", !.stages = Append(@, "filter")]
            ELSE [result EXCEPT
                    !.pc = "filtered",
                    !.stages = Append(@, "filter"),
                    !.df_for_analysis = filtered,
                    !.seasonal_info =
                        IF call.use_seasonal THEN PageSeasonalInfo(call) ELSE <<>>,
                    !.summary = summarize_daily_variables(filtered, var_cols)]
    /\ UNCHANGED <<variant, call, gee, doyIn, doyOut, tableVars>>

\* sections 4 and 5: the thresholds and compute_event_masks
PageMasksStage ==
    /\ result.pc = "filtered"
    /\ masks' = compute_event_masks(PageAnalysisTable(df, result), PageKwargs(params))
    /\ result' = [result EXCEPT
                    !.pc = IF DOMAIN masks' = {} THEN "halted" ELSE "masked",
                    !.stages = Append(@, "masks")]
    /\ UNCHANGED <<variant, call, gee, doyIn, doyOut, df, params>>

\* sections 6 and 7: frequency/severity and the yearly counts
PageAggregatesStage ==
    /\ result.pc = "masked"
    /\ result' = [result EXCEPT
                    !.pc = "aggregated",
                    !.stages = Append(@, "aggregates"),
                    !.freq_sev = summarize_event_frequency_severity(
                                     PageAnalysisTable(df, result), masks),
                    !.yearly = yearly_event_counts(PageAnalysisTable(df, result), masks)]
    /\ UNCHANGED <<variant, call, gee, doyIn, doyOut, tableVars>>

\* section 8: the report, when the button is pressed
PageReportStage ==
    /\ result.pc = "aggregated"
    /\ result' = IF ~call.button THEN [result EXCEPT !.pc = "done"]
                 ELSE LET report == PageReportCall(result, masks, params) IN
                      [result EXCEPT
                          !.pc = IF report.kind = "raise" THEN "raised" ELSE "done",
                          !.stages = Append(@, "report"),
                          !.report = report]
    /\ UNCHANGED <<variant, call, gee, doyIn, doyOut, tableVars>>

\* a widget changes: the script runs again from the top on the same table
PageRerun ==
    /\ result.pc \in {"halted", "done", "raised"}
    /\ result.run < MaxRuns
    /\ call' \in PageInputs
    /\ params' \in {DefaultWidgets, OtherWidgets}
    /\ result' = NewRun(result.run + 1)
    /\ masks' = Idle
    /\ UNCHANGED <<variant, gee, doyIn, doyOut, df>>

NextPage ==
    \/ PageSeasonStage
    \/ PageMasksStage
    \/ PageAggregatesStage
    \/ PageReportStage
    \/ PageRerun

SpecPage == InitPage /\ [][NextPage]_vars

(***************************************************************************)
(* Page run properties                                                     *)
(***************************************************************************)
ReportRequested ==
    /\ variant = "show_era5_csv_page"
    /\ result.pc \in {"done", "raised"}
    /\ call.button

\* C21: when a run produces the report, the report shows, for each of the
\* seven thresholds, the value that the same run passed to event detection,
\* and never None.
C21_ReportShowsParameters ==
    ReportRequested =>
        /\ result.report.kind = "pdf"
        /\ \A n \in ParamNames :
              /\ ~result.report.params[n].isNone
              /\ result.report.params[n].val = PageKwargs(params)[n]

\* a window counts as applied when seasonal_info is given and does not say
\* applied = False
WindowApplied(info) ==
    /\ DOMAIN info # {}
    /\ ~("applied" \in DOMAIN info /\ ~info["applied"])

\* C22: the report shows the window bounds and the record counts before and
\* after filtering exactly when a seasonal window was applied, and the
\* "no seasonal window applied" line only when none was.
C22_WindowInfoShown ==
    (variant = "generate_pdf_report" /\ result # Idle /\ result.kind = "pdf") =>
        /\ WindowApplied(call.seasonal_info) <=> result.season.kind = "applied"
        /\ result.season.kind = "applied" =>
              /\ ~result.season.days_before.isNone
              /\ ~result.season.days_after.isNone

StageOrder == <<"filter", "masks", "aggregates", "report">>

\* the table the filter stage of this run hands on
FilterStageTable ==
    IF call.use_seasonal
    THEN apply_seasonal_window(df, PageWindowKwargs(call)).filtered
    ELSE df

\* C23: the stages of a run execute in the order filter, event masks,
\* aggregates, report, each after its predecessor; the masks, the
\* frequency/severity rows and the yearly counts are computed on the table
\* of this run's filter stage with this run's parameters, and a new run
\* starts with none of them.
C23_StageOrdering ==
    variant = "show_era5_csv_page" =>
        /\ result.stages = SubSeq(StageOrder, 1, Len(result.stages))
        /\ result.pc = "start" => (masks = Idle /\ result = NewRun(result.run))
        /\ result.pc \in {"filtered", "masked", "aggregated", "done", "raised"} =>
              result.df_for_analysis = FilterStageTable
        /\ result.pc \in {"masked", "aggregated", "done", "raised"} =>
              masks = compute_event_masks(FilterStageTable, PageKwargs(params))
        /\ result.pc \in {"aggregated", "done", "raised"} =>
              /\ result.freq_sev =
                    summarize_event_frequency_severity(FilterStageTable, masks)
              /\ result.yearly = yearly_event_counts(FilterStageTable, masks)
        /\ result.pc = "filtered" => (masks = Idle /\ result.freq_sev = Idle)
        /\ result.pc = "masked" => result.freq_sev = Idle
        /\ result.pc \in {"start", "filtered", "masked", "aggregated"} =>
              result.report = Idle

\* a run whose window dropped a record and whose aggregates are computed
C23_Witness ==
    /\ variant = "show_era5_csv_page"
    /\ result.pc = "aggregated"
    /\ result.run > 1
    /\ call.use_seasonal
    /\ Len(result.df_for_analysis.rows) < Len(df.rows)
    /\ Len(result.df_for_analysis.rows) > 0
    /\ result.yearly # {}

(***************************************************************************)
(* era5_daily_analysis.py, main(): the command-line entry point.  An       *)
(* exception that leaves main ends the process with exit code 1.           *)
(***************************************************************************)
CliHeaders ==
    { <<"date", "precip_mm", "tmin_C", ".geo">>,
      <<"date", "precip_mm", ".geo">>,
      <<"date", "tmin_C", ".geo">>,
      <<"date", ".geo">> }

\* data lines in the exported form, every cell parseable
CliLinesOf(header) ==
    LET names == DataNames(header) IN
    { [form |-> "quoted_geo", cells |-> c] :
        c \in {c \in [1..Len(names) -> {"2020-01-01", "2021-02-04", "0", "5.0", "-1"}] :
                 \A i \in 1..Len(names) :
                    IF names[i] = "date" THEN c[i] \in {"2020-01-01", "2021-02-04"}
                    ELSE c[i] \in {"0", "5.0", "-1"}} }

\* --csv, --frost-threshold (default 0.0), --rain-threshold (default 20.0)
CliArgs ==
    { [csv |-> f, frost_threshold |-> t[1], rain_threshold |-> t[2]] :
      <<f, t>> \in
        ( {[readable |-> FALSE, empty |-> TRUE, header |-> <<>>, lines |-> <<>>],
           [readable |-> TRUE, empty |-> TRUE, header |-> <<>>, lines |-> <<>>]}
          \cup UNION { { [readable |-> TRUE, empty |-> FALSE, header |-> h, lines |-> ls] :
                         ls \in [1..n -> CliLinesOf(h)] } :
                       <<h, n>> \in CliHeaders \X (1..MaxLines) } )
        \X {<<0, 200>>, <<-10, 50>>} }

\* the loaded frame with its cells as plain values (every cell parsed)
FrameOf(loaded) ==
    [cols |-> loaded.cols,
     rows |-> [i \in 1..Len(loaded.rows) |->
                 [c \in loaded.cols |-> loaded.rows[i][c].val]]]

Exit(run, code) == [run EXCEPT !.pc = "exit", !.code = code]

InitCli ==
    /\ variant = "main"
    /\ call \in CliArgs
    /\ result = [pc |-> "load", code |-> 0, var_cols |-> <<>>, summary |-> Idle,
                 frost |-> Idle, heavy_rain |-> Idle]
    /\ df = Idle
    /\ params = Idle
    /\ masks = Idle
    /\ gee = Idle
    /\ doyIn = <<0, 0>>
    /\ doyOut = Idle

\* df = load_era5_daily_from_gee(args.csv); var_cols; summary_df
CliLoad ==
    /\ variant = "main"
    /\ result.pc = "load"
    /\ LET loaded == IF call.csv.readable THEN load_era5_daily_from_gee(call.csv)
                     ELSE Raise("FileNotFoundError")
       IN IF loaded.kind = "raise"
          THEN result' = Exit(result, 1) /\ df' = df
          ELSE /\ df' = FrameOf(loaded)
               /\ result' = [result EXCEPT
                     !.pc = "frost",
                     !.var_cols = detect_variable_columns(loaded),
                     !.summary = summarize_daily_variables(FrameOf(loaded),
                                     detect_variable_columns(loaded))]
    /\ UNCHANGED <<variant, call, gee, doyIn, doyOut, params, masks>>

\* frost = frost_stats(df, threshold_C=args.frost_threshold)
CliFrost ==
    /\ variant = "main"
    /\ result.pc = "frost"
    /\ LET frost == frost_stats(df, call.frost_threshold) IN
       result' = IF frost.kind = "raise" THEN Exit(result, 1)
                 ELSE [result EXCEPT !.pc = "heavy_rain", !.frost = frost]
    /\ UNCHANGED <<variant, call, gee, doyIn, doyOut, tableVars>>

\* heavy_rain = heavy_rain_events(df, threshold_mm=..., min_consec_days=1)
CliHeavyRain ==
    /\ variant = "main"
    /\ result.pc = "heavy_rain"
    /\ LET heavy_rain == heavy_rain_events(df, call.rain_threshold, 1) IN
       result' = IF heavy_rain.kind = "raise" THEN Exit(result, 1)
                 ELSE Exit([result EXCEPT !.heavy_rain = heavy_rain], 0)
    /\ UNCHANGED <<variant, call, gee, doyIn, doyOut, tableVars>>

NextCli == CliLoad \/ CliFrost \/ CliHeavyRain

SpecCli == InitCli /\ [][NextCli]_vars

\* C24: the command-line entry point exits with code 0 on every readable,
\* well-formed CSV, whatever subset of the optional fields it has, and with a
\* non-zero code on an unreadable file.
C24_CliExitCode ==
    (variant = "main" /\ result.pc = "exit") =>
        (result.code = 0 <=> (call.csv.readable /\ ~call.csv.empty))

(***************************************************************************)
(* Yearly series of the report charts                                      *)
(***************************************************************************)
ChartsDrawn ==
    /\ variant = "generate_pdf_report"
    /\ result.kind = "pdf"
    /\ result.charts.kind = "charts"

\* the mask _make_yearly_bar_chart hands to _yearly_counts: masks.get(key)
ChartMask(k) == IF k \in DOMAIN masks THEN masks[k] ELSE None

TrueDaysOfYear(k, y) ==
    Cardinality({i \in 1..Len(df.rows) :
        /\ ~ChartMask(k).isNone
        /\ ChartMask(k).val[i]
        /\ YearOfDay(df.rows[i]["date"]) = y})

\* C25: _yearly_counts returns one row for every year from the first to the
\* last year of the table, in ascending order; the days of a row is the number
\* of records of that year on which the mask is true (0 without an event, and
\* 0 in every year for a None mask), so the days add up to the number of true
\* entries of the mask.
C25_YearlyCountsContiguous ==
    ChartsDrawn =>
        \A k \in ReportKeySet :
            LET yearly == result.charts.yearly[k]
                years  == {YearOfDay(df.rows[i]["date"]) : i \in 1..Len(df.rows)}
                lo     == MinOf(years)
                hi     == MaxOf(years)
            IN /\ Len(yearly) = (hi - lo) + 1
               /\ \A j \in 1..Len(yearly) :
                     /\ yearly[j].year = (lo + j) - 1
                     /\ yearly[j].days = TrueDaysOfYear(k, yearly[j].year)
               /\ SumSeq([j \in 1..Len(yearly) |-> yearly[j].days]) =
                     IF ChartMask(k).isNone THEN 0 ELSE CountTrue(ChartMask(k).val)

\* a table over 2020..2022 without a record in 2021 and events in both ends
C25_Witness ==
    /\ ChartsDrawn
    /\ "rain_day" \in DOMAIN masks
    /\ LET yearly == result.charts.yearly["rain_day"] IN
          /\ Len(yearly) = 3
          /\ yearly[1].days = 1
          /\ yearly[2].days = 0
          /\ yearly[3].days = 1

(***************************************************************************)
(* Heavy-rain events and calendar days                                     *)
(***************************************************************************)
HeavyRainRan ==
    /\ variant = "heavy_rain_events"
    /\ result.kind = "ok"

\* the calendar days with a record whose precip_mm reaches the threshold
HeavyDays ==
    {df.rows[i]["date"] : i \in {j \in 1..Len(df.rows) :
                                    df.rows[j]["precip_mm"] >= call.threshold_mm}}

\* the maximal sequences of consecutive calendar days within HeavyDays
CalendarRuns ==
    { <<s, e>> \in HeavyDays \X HeavyDays :
        /\ s <= e
        /\ \A d \in s..e : d \in HeavyDays
        /\ (s - 1) \notin HeavyDays
        /\ (e + 1) \notin HeavyDays }

\* C26: heavy_rain_events returns exactly the maximal sequences of
\* consecutive calendar days with precip >= threshold_mm whose length is at
\* least min_consec_days, in chronological order, each with length_days =
\* (end_date - start_date) + 1, and n_events is their number; two heavy days
\* separated by a missing calendar day are different events, and an event
\* open at the last record is reported.
C26_EventsAreCalendarRuns ==
    HeavyRainRan =>
        /\ result.n_events = Len(result.events)
        /\ \A j \in 1..Len(result.events) :
              result.events[j].length_days =
                  (result.events[j].end_date - result.events[j].start_date) + 1
        /\ \A j \in 1..(Len(result.events) - 1) :
              result.events[j].end_date < result.events[j + 1].start_date
        /\ {<<result.events[j].start_date, result.events[j].end_date>> :
               j \in 1..Len(result.events)}
             = {r \in CalendarRuns : (r[2] - r[1]) + 1 >= call.min_consec_days}

(***************************************************************************)
(* Location names.  A name is the sequence of its characters; "A" stands   *)
(* for a letter, "1" for a digit, "-" and " " for characters outside       *)
(* [0-9a-zA-Z_].                                                           *)
(***************************************************************************)
MaxNameLen == 3

NameChars == {"A", "1", "-", " "}

IsSafeChar(ch) == ch \in {"A", "1", "_"}

\* str.strip()
RECURSIVE Strip(_)
Strip(name) ==
    IF name = <<>> THEN <<>>
    ELSE IF Head(name) = " " THEN Strip(Tail(name))
    ELSE IF name[Len(name)] = " " THEN Strip(SubSeq(name, 1, Len(name) - 1))
    ELSE name

\* re.sub(r"[^0-9a-zA-Z_]+", "_", s) / s.replace(/[^0-9a-zA-Z_]+/g, '_'):
\* every maximal run of other characters becomes one underscore
RECURSIVE ReplaceUnsafeRuns(_)
ReplaceUnsafeRuns(name) ==
    IF name = <<>> THEN <<>>
    ELSE IF IsSafeChar(Head(name)) THEN <<Head(name)>> \o ReplaceUnsafeRuns(Tail(name))
    ELSE IF Len(name) > 1 /\ ~IsSafeChar(name[2]) THEN ReplaceUnsafeRuns(Tail(name))
    ELSE <<"_">> \o ReplaceUnsafeRuns(Tail(name))

\* Era5Land.py sanitize_name
sanitize_name(name) ==
    LET safe == ReplaceUnsafeRuns(Strip(name)) IN
    IF safe = <<>> THEN <<"l", "o", "c">> ELSE safe

\* var sanitizeName = function(name) {...}
sanitizeName(name) == ReplaceUnsafeRuns(name)

\* the names the location parser can hand on: p.strip() of the first part
ParsedNames ==
    {n \in UNION {[1..k -> NameChars] : k \in 0..MaxNameLen} : Strip(n) = n}

InitNames ==
    /\ variant \in {"sanitize_name", "sanitizeName"}
    /\ \E a \in ParsedNames, b \in ParsedNames :
          /\ a # b
          /\ call = [locations |-> <<a, b>>]
    /\ result = <<>>
    /\ gee = Idle
    /\ doyIn = <<0, 0>>
    /\ doyOut = Idle
    /\ df = Idle
    /\ params = Idle
    /\ masks = Idle

\* for loc in locations: safe = sanitize_name(loc["name"]); var point_{safe},
\* var ts_{safe}, description 'ERA5Land_{safe}_{value_prop}'
EmitLocation ==
    /\ variant = "sanitize_name"
    /\ Len(result) < Len(call.locations)
    /\ LET safe == sanitize_name(call.locations[Len(result) + 1]) IN
       result' = Append(result,
                    [point |-> <<"point_">> \o safe, ts |-> <<"ts_">> \o safe,
                     description |-> <<"ERA5Land_">> \o safe \o <<"_", "value_prop">>])
    /\ UNCHANGED <<variant, call, gee, doyIn, doyOut, tableVars>>

\* locations.forEach: var point, var daily (local to the callback),
\* description 'ERA5_diario_' + sanitizeName(loc.name) + '_' + startYear + ...
ExportLocation ==
    /\ variant = "sanitizeName"
    /\ Len(result) < Len(call.locations)
    /\ LET safe == sanitizeName(call.locations[Len(result) + 1]) IN
       result' = Append(result,
                    [point |-> <<"point", Len(result) + 1>>,
                     ts |-> <<"daily", Len(result) + 1>>,
                     description |-> <<"ERA5_diario_">> \o safe
                                        \o <<"_", "startYear", "_", "endYear">>])
    /\ UNCHANGED <<variant, call, gee, doyIn, doyOut, tableVars>>

NextNames == EmitLocation \/ ExportLocation

SpecNames == InitNames /\ [][NextNames]_vars

\* C27: for locations with pairwise distinct names the script has a distinct
\* geometry and series per location and pairwise distinct export
\* descriptions, so no export overwrites or redeclares another's.
C27_ExportsDistinct ==
    (variant \in {"sanitize_name", "sanitizeName"}
       /\ Len(result) = Len(call.locations)) =>
        \A i \in 1..Len(result) : \A j \in 1..Len(result) :
            i # j =>
                /\ result[i].point # result[j].point
                /\ result[i].ts # result[j].ts
                /\ result[i].description # result[j].description

(***************************************************************************)
(* The two generators over the calendar extremes                           *)
(***************************************************************************)
\* ee.Filter.dayOfYear(lo, hi) with lo <= hi: lo <= doy <= hi
SelectedBy(ranges, doy) ==
    \E r \in 1..Len(ranges) : ranges[r][1] <= doy /\ doy <= ranges[r][2]

ScriptBuilt == variant = "build_gee_code" /\ result.kind = "script"

\* C28: for a wrapping window the ranges [start_doy, 366] and [1, end_doy] of
\* build_gee_code select exactly the days of year that the daily script's
\* predicate doy >= start_doy or doy <= end_doy keeps, days 1 and 366
\* included; for a window inside the year both select exactly
\* [start_doy, end_doy].
C28_WrapEquivalence ==
    ScriptBuilt =>
        LET sd == computeDoy(call.start_month, call.start_day)
            ed == computeDoy(call.end_month, call.end_day)
        IN /\ sd = result.startDoy /\ ed = result.endDoy
           /\ \A doy \in 1..366 :
                 SelectedBy(result.seasonal, doy)
                     <=> inSeason(wrapsYear(sd, ed), doy, sd, ed)
           /\ result.startDoy > result.endDoy =>
                 /\ SelectedBy(result.seasonal, 1)
                 /\ SelectedBy(result.seasonal, 366)
                 /\ inSeason(wrapsYear(sd, ed), 1, sd, ed)
                 /\ inSeason(wrapsYear(sd, ed), 366, sd, ed)
           /\ result.startDoy <= result.endDoy =>
                 \A doy \in 1..366 :
                     SelectedBy(result.seasonal, doy)
                         <=> (result.startDoy <= doy /\ doy <= result.endDoy)

\* the window Nov 15 - Feb 15
C28_Witness ==
    /\ ScriptBuilt
    /\ result.startDoy = 319
    /\ result.endDoy = 46
    /\ Len(result.seasonal) = 2

\* C29: build_gee_code never raises: for every configured event label it
\* returns the script or one of the error messages, the checks being the
\* unknown event, then the locations, then the month/day of the window.
C29_NeverRaises ==
    (variant = "build_gee_code" /\ result.kind # "idle") =>
        IF EventConfigKeys(call.event_label) = {}
        THEN result = Err("evento nao reconhecido")
        ELSE IF call.nLoc = 0 THEN result = Err("nenhuma localizacao valida")
        ELSE IF ~ValidDate(RefYear, call.start_month, call.start_day)
                \/ ~ValidDate(RefYear, call.end_month, call.end_day)
             THEN result = Err("mes/dia invalido")
        ELSE result.kind = "script"

\* C30: the daily script evaluates every calendar day from January 1 of
\* startYear through December 31 of endYear; a December 31 of endYear that
\* has data and lies in the window is in the series.
C30_LastDayEvaluated ==
    SeriesComplete =>
        LET last == DayNumber(result.endYear, 12, 31) IN
        /\ EvaluatedDays = DayNumber(result.startYear, 1, 1)..last
        /\ (last \notin gee.noData
              /\ inSeason(gee.wrapsYear, DoyOfDay(last), gee.startDoy, gee.endDoy))
             => last \in gee.fc

====
